---------------------------- MODULE Spec2Model ----------------------------
(***************************************************************************)
(* Model of the GTM container inspector (src/src/GtmInspector.js).         *)
(*                                                                         *)
(* Source text is a sequence of tokens.  A token stands for a fixed piece  *)
(* of text: c is its lexical class as the brace scanner sees it ("{", "}", *)
(* the double quote, the backslash, or a name for text that holds no       *)
(* unbalanced brace or quote), w is its length in characters.  JavaScript  *)
(* indices are 0-based; element i of a text is the TLA+ element i + 1.     *)
(***************************************************************************)
EXTENDS Integers, Sequences, FiniteSets, TLC

\* ------------------------------------------------------------------ bounds
\* longest character-level text handed to the brace scanner
MaxLen == 6
\* longest tags, rules and macros array of a document under decode
MaxItems == 2
\* most segments (a lead and an object literal) of a source text
MaxSegments == 2
\* most identifier literals of a text under the vendor scan
MaxOccurrences == 3
\* most entries after the head of a consent, setup_tags or add list
MaxEntries == 2
\* most members of an object literal handed to parseJavaScriptObject
MaxMembers == 3

\* ------------------------------------------------------- program constants
\* scan window of extractCompleteObject_ (i < startIdx + 5000000)
ScanCap == 5000000
\* length cap of an event name in extractEventName_ (eventValue.length < 100)
EventNameCap == 100

\* ------------------------------------------------------------------- state
VARIABLES
    text,       \* extractor: the text scanned
    start,      \* extractor: index of the opening brace
    out,        \* extractor: value returned by extractCompleteObject_
    xpc,        \* extractor: "ready" before the call, "done" after it,
                \*            "off" when the extractor is not under study
    doc,        \* decoder: the raw container document handed to decode
    decoded,    \* decoder: the outcome of parseContainerData_
    dpc,        \* decoder: "ready", "done", "again" or "off"
    again,      \* decoder: the outcome of a second decode of the document

    src,        \* locator: the source text handed to the locator
    located,    \* locator: the model extractContainerModelFromRawJs_ returns
    lpc,        \* locator: "ready", "done" or "off"
    config,     \* run: the GTM_CONFIG sheet and its cell A2
    tables,     \* run: the four output sheets, each with its rows of cells
    aux,        \* run: the GTM_README, GTM_DEBUG, GTM_RAW_DATA and GTM_SUMMARY
                \* sheets
    alerts,     \* run: the dialogs the last handler showed, in order
    last,       \* run: the last handler run, its response and its steps
    scanText,   \* vendor scan: the source text scanned
    scanHits,   \* vendor scan: the hits analyzeVendorsFromRawJs_ returns
    spc,        \* vendor scan: "ready", "done" or "off"
    rawItem,    \* records: one raw tag, macro or rule, with its kind
    decodedItem, \* records: the outcome of decoding the raw item
    ipc,        \* records: "ready", "done" or "off"
    objText,    \* literal parser: the text of the object literal
    parsedOut,  \* literal parser: the outcome and the tiers that ran
    epc,        \* literal parser: "ready", "done" or "off"
    loaded,     \* build: the file whose global getSheetDataAsObjects is the
                \*        one the script project ends up with
    inventory,  \* crawler: the data rows of PAGES_INVENTORY, in sheet order
    crawlConfig, \* crawler: what getConfig() returns: maxPages and maxDepth
    cpc,        \* crawler: "idle", "loop" inside the main loop of runCrawl,
                \*          or "off"
    picked,     \* crawler: what the last iteration of the loop did, and to
                \*          which page
    crawlAlert, \* crawler: the title of the dialog runCrawl showed last
    searchText, \* exhaustive search: the source text searched
    searchOut,  \* exhaustive search: what findContainerDataObject_ returns
    fpc         \* exhaustive search: "ready", "done" or "off"

extractVars == <<text, start, out, xpc>>
decodeVars == <<doc, decoded, dpc, again>>
locateVars == <<src, located, lpc>>
runVars == <<config, tables, aux, alerts, last>>
scanVars == <<scanText, scanHits, spc>>
recordVars == <<rawItem, decodedItem, ipc>>
evalVars == <<objText, parsedOut, epc>>
buildVars == <<loaded>>
crawlVars == <<inventory, crawlConfig, cpc, picked, crawlAlert>>
searchVars == <<searchText, searchOut, fpc>>
vars == <<extractVars, decodeVars, locateVars, runVars, scanVars, recordVars, evalVars, buildVars, crawlVars, searchVars>>

\* ----------------------------------------------------------------- strings
\* a one-character token of class c
Chr(c) == [c |-> c, w |-> 1]

Quote == "\""
Backslash == "\\"

\* str[i]
CharAt(str, i) == str[i + 1].c

\* str.substring(from, to)
Substring(str, from, to) == SubSeq(str, from + 1, to)

\* the length in characters of the elements lo..hi of a text
RECURSIVE Width(_, _, _)
Width(str, lo, hi) ==
    IF lo > hi THEN 0
    ELSE IF lo = hi THEN str[lo].w
    ELSE Width(str, lo, (lo + hi) \div 2) + Width(str, ((lo + hi) \div 2) + 1, hi)

\* character offset of element i: the length of the text before it
Pos(str, i) == Width(str, 1, i)

\* str.length, in characters
StrLength(str) == Pos(str, Len(str))

\* the null returned by the extractor, and a returned string
NoObject == [found |-> FALSE, text |-> <<>>]
Extracted(s) == [found |-> TRUE, text |-> s]

\* --------------------------------------------- extractCompleteObject_
\* the for loop of extractCompleteObject_; the value is endIdx
RECURSIVE ScanObject(_, _, _, _, _, _)
ScanObject(str, startIdx, i, braceCount, inString, escapeNext) ==
    IF ~(i < Len(str) /\ Width(str, startIdx + 1, i) < ScanCap)
    THEN startIdx
    ELSE LET char == CharAt(str, i) IN
         IF escapeNext
         THEN ScanObject(str, startIdx, i + 1, braceCount, inString, FALSE)
         ELSE IF char = Backslash
         THEN ScanObject(str, startIdx, i + 1, braceCount, inString, TRUE)
         ELSE IF char = Quote
         THEN ScanObject(str, startIdx, i + 1, braceCount, ~inString, FALSE)
         ELSE IF inString
         THEN ScanObject(str, startIdx, i + 1, braceCount, inString, FALSE)
         ELSE IF char = "{"
         THEN ScanObject(str, startIdx, i + 1, braceCount + 1, inString, FALSE)
         ELSE IF char = "}"
         THEN IF braceCount - 1 = 0
              THEN i + 1
              ELSE ScanObject(str, startIdx, i + 1, braceCount - 1, inString, FALSE)
         ELSE ScanObject(str, startIdx, i + 1, braceCount, inString, FALSE)

\* a faulty scanner: it counts braces inside string literals too
RECURSIVE ScanObjectNoStrings(_, _, _, _)
ScanObjectNoStrings(str, startIdx, i, braceCount) ==
    IF ~(i < Len(str) /\ Width(str, startIdx + 1, i) < ScanCap)
    THEN startIdx
    ELSE LET char == CharAt(str, i) IN
         IF char = "{"
         THEN ScanObjectNoStrings(str, startIdx, i + 1, braceCount + 1)
         ELSE IF char = "}"
         THEN IF braceCount - 1 = 0
              THEN i + 1
              ELSE ScanObjectNoStrings(str, startIdx, i + 1, braceCount - 1)
         ELSE ScanObjectNoStrings(str, startIdx, i + 1, braceCount)

extractCompleteObject_IgnoringStrings(str, startIdx) ==
    LET endIdx == ScanObjectNoStrings(str, startIdx, startIdx, 0) IN
    IF endIdx > startIdx
    THEN Extracted(Substring(str, startIdx, endIdx))
    ELSE NoObject

\* a faulty extractor: an object left open at the end of the text is
\* returned as far as it goes
extractCompleteObject_Partial(str, startIdx) ==
    LET endIdx == ScanObject(str, startIdx, startIdx, 0, FALSE, FALSE) IN
    IF endIdx > startIdx
    THEN Extracted(Substring(str, startIdx, endIdx))
    ELSE Extracted(Substring(str, startIdx, Len(str)))

extractCompleteObject_(str, startIdx) ==
    LET endIdx == ScanObject(str, startIdx, startIdx, 0, FALSE, FALSE) IN
    IF endIdx > startIdx
    THEN Extracted(Substring(str, startIdx, endIdx))
    ELSE NoObject

\* -------------------------------------------- reference: JSON lexical form
\* The lexical structure of a JSON object, by recursive descent: a string
\* runs from a quote to the next quote not preceded by an escape, an object
\* from "{" to its own "}", and a backslash has no place outside a string.
\* Results: the index after the closing character, Unclosed when the text
\* ends first, Malformed on a backslash outside a string.
Unclosed == -1
Malformed == -2

RECURSIVE StringEnd(_, _)
\* k is inside a string literal
StringEnd(str, k) ==
    IF k >= Len(str) THEN Unclosed
    ELSE IF CharAt(str, k) = Quote THEN k + 1
    ELSE IF CharAt(str, k) = Backslash
         THEN IF k + 1 >= Len(str) THEN Unclosed ELSE StringEnd(str, k + 2)
    ELSE StringEnd(str, k + 1)

RECURSIVE ObjectEnd(_, _)
\* j is inside an object, at nesting level 1 of that object
ObjectEnd(str, j) ==
    IF j >= Len(str) THEN Unclosed
    ELSE LET ch == CharAt(str, j) IN
         IF ch = "}" THEN j + 1
         ELSE IF ch = Backslash THEN Malformed
         ELSE IF ch = Quote
         THEN LET e == StringEnd(str, j + 1) IN
              IF e < 0 THEN e ELSE ObjectEnd(str, e)
         ELSE IF ch = "{"
         THEN LET e == ObjectEnd(str, j + 1) IN
              IF e < 0 THEN e ELSE ObjectEnd(str, e)
         ELSE ObjectEnd(str, j + 1)

\* where the object opened at startIdx ends
MatchingEnd(str, startIdx) == ObjectEnd(str, startIdx + 1)

\* ------------------------------------------------------ JavaScript values
\* A value carries its type tag t and its content v: a string is a sequence
\* of tokens (as the source text), an array a sequence of values, an object
\* a function from its own property names to values.
Undefined == [t |-> "undefined", v |-> 0]
Null == [t |-> "null", v |-> 0]
Bool(b) == [t |-> "bool", v |-> b]
Num(n) == [t |-> "num", v |-> n]
Str(s) == [t |-> "str", v |-> s]
Arr(a) == [t |-> "arr", v |-> a]
Obj(f) == [t |-> "obj", v |-> f]

\* a string literal of the program, with its length
Lit(s, n) == <<[c |-> s, w |-> n]>>

\* a string written character by character
RECURSIVE Chars(_)
Chars(cs) == IF cs = <<>> THEN <<>> ELSE <<Chr(Head(cs))>> \o Chars(Tail(cs))

IsNullish(x) == x.t \in {"undefined", "null"}
IsArray(x) == x.t = "arr"
IsString(x) == x.t = "str"

\* ToBoolean
Truthy(x) ==
    CASE x.t = "undefined" -> FALSE
      [] x.t = "null" -> FALSE
      [] x.t = "bool" -> x.v
      [] x.t = "num" -> x.v # 0
      [] x.t = "str" -> x.v # <<>>
      [] OTHER -> TRUE

\* x[p] for a property name p; x is not null or undefined
Get(x, p) ==
    IF x.t = "obj" /\ p \in DOMAIN x.v THEN x.v[p] ELSE Undefined

\* x[i] for a number i; x is not null or undefined
At(x, i) ==
    IF x.t = "arr" /\ i >= 0 /\ i < Len(x.v) THEN x.v[i + 1] ELSE Undefined

\* x[k] for a value k read from the document
Index(x, k) == IF k.t = "num" THEN At(x, k.v) ELSE Undefined

\* x.length of an array or a string
Length(x) == IF x.t = "arr" THEN Len(x.v) ELSE StrLength(x.v)

\* the classes of the characters of a string, one per token
Classes(s) == [i \in 1..Len(s) |-> s[i].c]

\* s.startsWith(p) and s.includes(p), for strings written by character
StartsWith(s, p) ==
    Len(p) <= Len(s) /\ SubSeq(Classes(s), 1, Len(p)) = Classes(p)

Includes(s, p) ==
    \E i \in 0..(Len(s) - Len(p)) :
        SubSeq(Classes(s), i + 1, i + Len(p)) = Classes(p)

\* same string: the same characters
SameString(s, p) == Classes(s) = Classes(p)

DigitChars == <<"0", "1", "2", "3", "4", "5", "6", "7", "8", "9">>

\* String(n) for a number n >= 0
RECURSIVE NumStr(_)
NumStr(n) ==
    IF n < 10 THEN <<Chr(DigitChars[n + 1])>>
    ELSE NumStr(n \div 10) \o <<Chr(DigitChars[(n % 10) + 1])>>

\* parts.join(sep)
RECURSIVE Join(_, _)
Join(parts, sep) ==
    IF parts = <<>> THEN <<>>
    ELSE IF Len(parts) = 1 THEN parts[1]
    ELSE parts[1] \o sep \o Join(Tail(parts), sep)

\* String(x)
RECURSIVE ToStr(_)
ToStr(x) ==
    CASE x.t = "undefined" -> Lit("undefined", 9)
      [] x.t = "null" -> Lit("null", 4)
      [] x.t = "bool" -> IF x.v THEN Lit("true", 4) ELSE Lit("false", 5)
      [] x.t = "num" -> IF x.v < 0 THEN <<Chr("-")>> \o NumStr(0 - x.v)
                        ELSE NumStr(x.v)
      [] x.t = "str" -> x.v
      [] x.t = "arr" ->
            Join([i \in 1..Len(x.v) |->
                     IF IsNullish(x.v[i]) THEN <<>> ELSE ToStr(x.v[i])],
                 <<Chr(",")>>)
      [] x.t = "json" -> <<[c |-> "json", w |-> 0, of |-> x.v]>>
      [] OTHER -> Lit("[object Object]", 15)

\* the outcome of a call: a value, or an exception
Ok(v) == [thrown |-> FALSE, value |-> v]
Threw == [thrown |-> TRUE, value |-> <<>>]

\* a.slice(0, n)
Take(a, n) == SubSeq(a, 1, IF n < Len(a) THEN n ELSE Len(a))

\* -------------------------------------------------------- trigger decoding
\* the text of JSON.stringify(x): the value under a tag of its own
Json(x) == [t |-> "json", v |-> x]

\* opMap of stringifyPredicate_
OpLabel(op) ==
    IF ~IsString(op) THEN ToStr(op)
    ELSE IF SameString(op.v, Chars(<<"e","q","u","a","l","s">>)) THEN Lit("==", 2)
    ELSE IF SameString(op.v, Chars(<<"c","n">>)) THEN Lit("contains", 8)
    ELSE IF SameString(op.v, Chars(<<"s","w">>)) THEN Lit("starts with", 11)
    ELSE IF SameString(op.v, Chars(<<"e","w">>)) THEN Lit("ends with", 9)
    ELSE IF SameString(op.v, Chars(<<"r","e","g","e","x">>)) THEN Lit("matches", 7)
    ELSE op.v

stringifyPredicate_(predicate) ==
    LET op == At(predicate, 0)
        val == At(predicate, 2)
    IN OpLabel(op) \o Lit(" \"", 2) \o ToStr(val) \o Lit("\"", 1)

\* the predicates a list of indices resolves to, in order; an index with no
\* truthy predicate behind it contributes nothing
RECURSIVE Resolved(_, _)
Resolved(ids, predicates) ==
    IF ids = <<>> THEN <<>>
    ELSE LET p == Index(predicates, Head(ids)) IN
         (IF Truthy(p) THEN <<p>> ELSE <<>>) \o Resolved(Tail(ids), predicates)

AllPages == Lit("All Pages", 9)

\* a faulty summary: a condition index is used without the test that a predicate
\* stands behind it
summarizeTriggerConditions_Unchecked(rule, predicates) ==
    LET add == Get(rule, "add") IN
    IF ~Truthy(add) THEN Ok(AllPages)
    ELSE IF ~IsArray(add) THEN Threw
    ELSE IF \E i \in 1..Len(add.v) : IsNullish(Index(predicates, add.v[i]))
    THEN Threw
    ELSE LET conditions ==
                 [i \in 1..Len(Resolved(add.v, predicates)) |->
                     stringifyPredicate_(Resolved(add.v, predicates)[i])]
             joined == Join(Take(conditions, 3), Lit(" AND ", 5))
         IN Ok(IF joined = <<>> THEN AllPages ELSE joined)

summarizeTriggerConditions_(rule, predicates) ==
    LET add == Get(rule, "add") IN
    IF ~Truthy(add) THEN Ok(AllPages)
    ELSE IF ~IsArray(add) THEN Threw
    ELSE LET conditions ==
                 [i \in 1..Len(Resolved(add.v, predicates)) |->
                     stringifyPredicate_(Resolved(add.v, predicates)[i])]
             joined == Join(Take(conditions, 3), Lit(" AND ", 5))
         IN Ok(IF joined = <<>> THEN AllPages ELSE joined)

extractExceptionConditions_(rule, predicates) ==
    LET unless == Get(rule, "unless") IN
    IF ~(Truthy(unless) /\ IsArray(unless)) THEN Lit("None", 4)
    ELSE LET exceptions ==
                 [i \in 1..Len(Resolved(unless.v, predicates)) |->
                     stringifyPredicate_(Resolved(unless.v, predicates)[i])]
         IN IF Len(exceptions) > 0 THEN Join(exceptions, Lit("; ", 2))
            ELSE Lit("None", 4)

\* a faulty reader that takes any string operand under the cap, URL or not
EventOfUnfiltered(predicate) ==
    LET op == At(predicate, 0)
        arg0 == At(predicate, 1)
        eventValue == At(predicate, 2)
    IN IF /\ Truthy(predicate) /\ IsArray(predicate)
          /\ IsString(op)
          /\ \/ SameString(op.v, Chars(<<"e","q","u","a","l","s">>))
             \/ SameString(op.v, Chars(<<"c","n">>))
          /\ IsArray(arg0)
          /\ IsString(At(arg0, 0))
          /\ SameString(At(arg0, 0).v, Chars(<<"m","a","c","r","o">>))
          /\ At(arg0, 1).t = "num" /\ At(arg0, 1).v = 0
          /\ IsString(eventValue)
          /\ Length(eventValue) > 0 /\ Length(eventValue) < EventNameCap
       THEN eventValue.v
       ELSE <<>>

\* the event name a single predicate yields, or the empty string
EventOf(predicate) ==
    LET op == At(predicate, 0)
        arg0 == At(predicate, 1)
        eventValue == At(predicate, 2)
    IN IF /\ Truthy(predicate) /\ IsArray(predicate)
          /\ IsString(op)
          /\ \/ SameString(op.v, Chars(<<"e","q","u","a","l","s">>))
             \/ SameString(op.v, Chars(<<"c","n">>))
          /\ IsArray(arg0)
          /\ IsString(At(arg0, 0))
          /\ SameString(At(arg0, 0).v, Chars(<<"m","a","c","r","o">>))
          /\ At(arg0, 1).t = "num" /\ At(arg0, 1).v = 0
          /\ IsString(eventValue)
          /\ Length(eventValue) > 0 /\ Length(eventValue) < EventNameCap
          /\ ~StartsWith(eventValue.v, Chars(<<"h","t","t","p">>))
          /\ ~StartsWith(eventValue.v, Chars(<<"/">>))
       THEN eventValue.v
       ELSE <<>>

RECURSIVE FirstEvent(_, _)
FirstEvent(ids, predicates) ==
    IF ids = <<>> THEN <<>>
    ELSE LET e == EventOf(Index(predicates, Head(ids))) IN
         IF e # <<>> THEN e ELSE FirstEvent(Tail(ids), predicates)

extractEventName_(rule, predicates) ==
    LET add == Get(rule, "add") IN
    IF ~(Truthy(add) /\ IsArray(add)) THEN <<>>
    ELSE FirstEvent(add.v, predicates)

identifyTriggerType_(rule, predicates) ==
    LET add == Get(rule, "add")
        firstPredicate == Index(predicates, At(add, 0))
        type == At(firstPredicate, 0)
        arg == At(firstPredicate, 1)
    IN IF Truthy(add) /\ add.t \in {"arr", "str"} /\ Length(add) > 0
          /\ Truthy(firstPredicate)
       THEN IF /\ IsString(type)
               /\ SameString(type.v, Chars(<<"e","q","u","a","l","s">>))
               /\ Truthy(arg)
               /\ IsString(Get(arg, "macro"))
               /\ SameString(Get(arg, "macro").v, Chars(<<"0">>))
            THEN Lit("Page View", 9)
            ELSE IF /\ IsString(type)
                    /\ \/ SameString(type.v, Chars(<<"c","n">>))
                       \/ SameString(type.v,
                              Chars(<<"c","o","n","t","a","i","n","s">>))
            THEN Lit("Page View (conditional)", 23)
            ELSE Lit("Custom Trigger", 14)
       ELSE Lit("Custom Trigger", 14)

\* x === 'chars' for a string constant of the program
StrEq(x, chars) == IsString(x) /\ SameString(x.v, chars)

\* x === true
IsTrue(x) == x.t = "bool" /\ x.v

\* a || b
OrElse(a, b) == IF Truthy(a) THEN a ELSE b

\* the value after 'name' in a metadata array, '' when there is none
RECURSIVE NameAfter(_, _)
NameAfter(metadata, i) ==
    IF i >= Len(metadata) THEN Str(<<>>)
    ELSE IF StrEq(metadata[i + 1], Chars(<<"n","a","m","e">>))
            /\ i + 1 < Len(metadata)
         THEN metadata[i + 2]
         ELSE NameAfter(metadata, i + 1)

MetadataName(x) ==
    LET metadata == Get(x, "metadata") IN
    IF Truthy(metadata) /\ IsArray(metadata) THEN NameAfter(metadata.v, 0)
    ELSE Str(<<>>)

\* the operands the synthesized trigger name is built from: of the first two
\* positive conditions, those that resolve to a predicate of three or more
\* elements with a short non-empty operand
RECURSIVE NameConditions(_, _, _)
NameConditions(add, predicates, i) ==
    IF i >= Len(add) \/ i >= 2 THEN <<>>
    ELSE LET pred == Index(predicates, add[i + 1])
             val == At(pred, 2)
         IN (IF /\ Truthy(pred) /\ IsArray(pred) /\ Length(pred) >= 3
                /\ Truthy(val)
                /\ StrLength(ToStr(val)) > 0 /\ StrLength(ToStr(val)) < 50
             THEN <<ToStr(val)>> ELSE <<>>)
            \o NameConditions(add, predicates, i + 1)

\* the body of the forEach of parseGtmTriggers_, for the rule at idx
TriggerOf(rule, idx, predicates, containerId) ==
    IF IsNullish(rule) THEN Threw
    ELSE
    LET explicit == MetadataName(rule)
        add == Get(rule, "add")
        conditions == IF Truthy(add) /\ IsArray(add)
                      THEN NameConditions(add.v, predicates, 0) ELSE <<>>
        triggerName ==
            IF Truthy(explicit) THEN explicit
            ELSE IF Len(conditions) > 0
            THEN Str(Lit("Trigger #", 9) \o NumStr(idx) \o Lit(": ", 2)
                        \o Join(conditions, Lit(" | ", 3)))
            ELSE Str(Lit("Trigger #", 9) \o NumStr(idx))
        summary == summarizeTriggerConditions_(rule, predicates)
    IN IF summary.thrown THEN Threw
       ELSE Ok([containerId |-> Str(containerId),
                id |-> Str(Lit("trigger_", 8) \o NumStr(idx)),
                name |-> triggerName,
                type |-> Str(identifyTriggerType_(rule, predicates)),
                eventName |-> Str(extractEventName_(rule, predicates)),
                conditionsSummary |-> Str(summary.value),
                exceptions |-> Str(extractExceptionConditions_(rule, predicates)),
                raw |-> Json(rule)])

parseGtmTriggers_(predicates, rules, containerId) ==
    IF ~IsArray(rules) THEN Threw
    ELSE IF \E i \in 1..Len(rules.v) :
                TriggerOf(rules.v[i], i - 1, predicates, containerId).thrown
    THEN Threw
    ELSE Ok([i \in 1..Len(rules.v) |->
                TriggerOf(rules.v[i], i - 1, predicates, containerId).value])

\* ------------------------------------------------------------ tag decoding
\* function identifiers and fragments the classifiers look for
S_gaawe == Chars(<<"g","a","a","w","e">>)
S_gaawc == Chars(<<"g","a","a","w","c">>)
S_gaa == Chars(<<"g","a","a">>)
S_googtag == Chars(<<"g","o","o","g","t","a","g">>)
S__googtag == Chars(<<"_","_","g","o","o","g","t","a","g">>)
S__ua == Chars(<<"_","_","u","a">>)
S__gclidw == Chars(<<"_","_","g","c","l","i","d","w">>)
S_gclidw == Chars(<<"g","c","l","i","d","w">>)
S_awct == Chars(<<"a","w","c","t">>)
S_sp == Chars(<<"s","p">>)
S_flc == Chars(<<"f","l","c">>)
S_fls == Chars(<<"f","l","s">>)
S__html == Chars(<<"_","_","h","t","m","l">>)
S__img == Chars(<<"_","_","i","m","g">>)
S_Gdash == Chars(<<"G","-">>)
S_fbq == Chars(<<"f","b","q","(">>)
S_ttq == Chars(<<"t","t","q",".">>)
S_linkedin == Chars(<<"l","i","n","k","e","d","i","n">>)
S_pintrk == Chars(<<"p","i","n","t","r","k">>)
S_list == Chars(<<"l","i","s","t">>)
S_tag == Chars(<<"t","a","g">>)

\* x.includes exists: x is a string or an array
HasIncludes(x) == x.t \in {"str", "arr"}

\* x.includes('chars'), for x a string or an array
Inc(x, chars) ==
    IF IsString(x) THEN Includes(x.v, chars)
    ELSE \E i \in 1..Len(x.v) : StrEq(x.v[i], chars)

identifyTagType_(tag) ==
    LET func == OrElse(Get(tag, "function"), Str(<<>>))
        vtp == OrElse(Get(tag, "vtp_trackingId"),
                      OrElse(Get(tag, "vtp_measurementId"), Str(<<>>)))
    IN IF ~HasIncludes(func) THEN Threw
       ELSE IF Inc(func, S_gaawe) \/ Inc(func, S_gaawc)
       THEN Ok(Str(Lit("GA4 Event", 9)))
       ELSE IF StrEq(func, S__googtag) THEN Ok(Str(Lit("GA4 Config", 10)))
       ELSE IF ~IsString(vtp) THEN Threw
       ELSE IF StartsWith(vtp.v, S_Gdash) THEN Ok(Str(Lit("GA4 Config", 10)))
       ELSE IF StrEq(func, S__ua) THEN Ok(Str(Lit("Universal Analytics", 19)))
       ELSE IF StrEq(func, S__gclidw)
       THEN Ok(Str(Lit("Google Ads Conversion Linker", 28)))
       ELSE IF Inc(func, S_awct)
       THEN Ok(Str(Lit("Google Ads Conversion Tracking", 30)))
       ELSE IF Inc(func, S_sp) THEN Ok(Str(Lit("Google Ads Remarketing", 22)))
       ELSE IF Inc(func, S_flc) \/ Inc(func, S_fls)
       THEN Ok(Str(Lit("Floodlight Counter/Sales", 24)))
       ELSE IF StrEq(func, S__html) THEN Ok(Str(Lit("Custom HTML", 11)))
       ELSE IF StrEq(func, S__img) THEN Ok(Str(Lit("Custom Image", 12)))
       ELSE Ok(OrElse(func, Str(Lit("Unknown", 7))))

identifyTagVendor_(tag) ==
    LET func == OrElse(Get(tag, "function"), Str(<<>>))
        html == OrElse(Get(tag, "vtp_html"), Str(<<>>))
    IN IF ~HasIncludes(func) THEN Threw
       ELSE IF Inc(func, S_gaa) \/ Inc(func, S_googtag) \/ StrEq(func, S__ua)
       THEN Ok(Str(Lit("Google Analytics", 16)))
       ELSE IF Inc(func, S_awct) \/ Inc(func, S_gclidw) \/ Inc(func, S_sp)
       THEN Ok(Str(Lit("Google Ads", 10)))
       ELSE IF Inc(func, S_flc) \/ Inc(func, S_fls)
       THEN Ok(Str(Lit("Floodlight", 10)))
       ELSE IF ~HasIncludes(html) THEN Threw
       ELSE IF Inc(html, S_fbq) THEN Ok(Str(Lit("Meta (Facebook)", 15)))
       ELSE IF Inc(html, S_ttq) THEN Ok(Str(Lit("TikTok", 6)))
       ELSE IF Inc(html, S_linkedin) THEN Ok(Str(Lit("LinkedIn", 8)))
       ELSE IF Inc(html, S_pintrk) THEN Ok(Str(Lit("Pinterest", 9)))
       ELSE IF StrEq(func, S__html) \/ StrEq(func, S__img)
       THEN Ok(Str(Lit("Custom", 6)))
       ELSE Ok(Str(Lit("Other/Unknown", 13)))

\* a.filter(x => typeof x === 'string'), as the strings themselves
RECURSIVE StringsOf(_)
StringsOf(a) ==
    IF a = <<>> THEN <<>>
    ELSE (IF IsString(Head(a)) THEN <<Head(a).v>> ELSE <<>>) \o StringsOf(Tail(a))

\* a faulty consent reader that takes the strings of any array
parseConsentSettings_AnyArray(tag) ==
    LET consent == Get(tag, "consent") IN
    IF ~Truthy(consent) \/ ~IsArray(consent) THEN Lit("None", 4)
    ELSE IF consent.v = <<>> THEN Lit("None", 4)
    ELSE LET consentTypes == StringsOf(Tail(consent.v)) IN
         IF Len(consentTypes) > 0 THEN Join(consentTypes, Lit(", ", 2))
         ELSE Lit("None", 4)

parseConsentSettings_(tag) ==
    LET consent == Get(tag, "consent") IN
    IF ~Truthy(consent) \/ ~IsArray(consent) THEN Lit("None", 4)
    ELSE IF StrEq(At(consent, 0), S_list)
    THEN LET consentTypes == StringsOf(Tail(consent.v)) IN
         IF Len(consentTypes) > 0 THEN Join(consentTypes, Lit(", ", 2))
         ELSE Lit("None", 4)
    ELSE Lit("None", 4)

\* a faulty reader of the firing option that looks at once_per_load first
parseTagFiringOption_PageFirst(tag) ==
    IF IsTrue(Get(tag, "once_per_load")) THEN Lit("Once per page", 13)
    ELSE IF IsTrue(Get(tag, "once_per_event")) THEN Lit("Once per event", 14)
    ELSE Lit("Unlimited", 9)

parseTagFiringOption_(tag) ==
    IF IsTrue(Get(tag, "once_per_event")) THEN Lit("Once per event", 14)
    ELSE IF IsTrue(Get(tag, "once_per_load")) THEN Lit("Once per page", 13)
    ELSE Lit("Unlimited", 9)

\* the ids of the ["tag", <number>, ...] items of a list, in order
RECURSIVE SetupIds(_)
SetupIds(items) ==
    IF items = <<>> THEN <<>>
    ELSE (IF /\ IsArray(Head(items))
             /\ StrEq(At(Head(items), 0), S_tag)
             /\ At(Head(items), 1).t = "num"
          THEN <<At(Head(items), 1)>> ELSE <<>>) \o SetupIds(Tail(items))

extractSetupTags_(tag) ==
    LET setup == Get(tag, "setup_tags") IN
    IF Truthy(setup) /\ IsArray(setup) THEN SetupIds(setup.v) ELSE <<>>

\* array.join(sep) of an array of values
JoinValues(a, sep) ==
    Join([i \in 1..Len(a) |-> IF IsNullish(a[i]) THEN <<>> ELSE ToStr(a[i])],
         sep)

\* the property name of a position: String(idx)
Key(idx) == DigitChars[idx + 1]

\* idx in entities
HasKey(entities, idx) ==
    IF entities.t = "obj" THEN Key(idx) \in DOMAIN entities.v
    ELSE idx < Len(entities.v)

EntityName(entities, idx) ==
    LET entityData == IF entities.t = "obj" THEN Get(entities, Key(idx))
                      ELSE At(entities, idx)
    IN IF IsArray(entityData) /\ Length(entityData) > 0
       THEN <<At(entityData, 0)>> ELSE <<>>

\* the name built from the vtp parameters of a tag; tagName when none is set
VtpName(tag, tagName) ==
    IF Truthy(Get(tag, "vtp_name")) THEN Get(tag, "vtp_name")
    ELSE IF Truthy(Get(tag, "vtp_tagId")) THEN Get(tag, "vtp_tagId")
    ELSE IF Truthy(Get(tag, "vtp_activityTag")) /\ Truthy(Get(tag, "vtp_groupTag"))
    THEN Str(ToStr(Get(tag, "vtp_groupTag")) \o Lit("/", 1)
                \o ToStr(Get(tag, "vtp_activityTag")))
    ELSE IF Truthy(Get(tag, "vtp_trackingId")) THEN Get(tag, "vtp_trackingId")
    ELSE IF Truthy(Get(tag, "vtp_measurementId"))
    THEN Get(tag, "vtp_measurementId")
    ELSE IF Truthy(Get(tag, "vtp_conversionId"))
    THEN Str(Lit("Conversion ", 11) \o ToStr(Get(tag, "vtp_conversionId")))
    ELSE IF Truthy(Get(tag, "vtp_conversionLabel"))
    THEN Get(tag, "vtp_conversionLabel")
    ELSE tagName

parseGtmTag_(tag, idx, containerId, entities) ==
    IF IsNullish(tag) THEN Threw
    ELSE
    LET tagId == Get(tag, "tag_id")
        triggers == IF IsNullish(tagId) THEN <<>>
                    ELSE IF IsArray(tagId) THEN JoinValues(tagId.v, Lit(", ", 2))
                    ELSE ToStr(tagId)
        byField == OrElse(Get(tag, "name"), Str(<<>>))
        byMetadata == IF Truthy(byField) THEN byField ELSE MetadataName(tag)
        entityThrows == /\ ~Truthy(byMetadata) /\ Truthy(entities)
                        /\ entities.t \notin {"obj", "arr"}
        byEntity == IF /\ ~Truthy(byMetadata) /\ Truthy(entities)
                       /\ entities.t \in {"obj", "arr"}
                       /\ HasKey(entities, idx)
                       /\ EntityName(entities, idx) # <<>>
                    THEN EntityName(entities, idx)[1] ELSE byMetadata
        tagName == IF Truthy(byEntity) THEN byEntity ELSE VtpName(tag, byEntity)
        type == identifyTagType_(tag)
        vendor == identifyTagVendor_(tag)
    IN IF entityThrows \/ type.thrown \/ vendor.thrown THEN Threw
       ELSE Ok([containerId |-> Str(containerId),
                id |-> OrElse(Get(tag, "function"),
                              Str(Lit("tag_", 4) \o NumStr(idx))),
                name |-> tagName,
                type |-> type.value,
                vendor |-> vendor.value,
                priority |-> OrElse(Get(tag, "priority"), Num(0)),
                triggers |-> Str(triggers),
                consent |-> Str(parseConsentSettings_(tag)),
                firingOption |-> Str(parseTagFiringOption_(tag)),
                setupTags |-> Str(JoinValues(extractSetupTags_(tag), Lit(", ", 2))),
                raw |-> Json(tag)])

\* ------------------------------------------------------- variable decoding
S__v == Chars(<<"_","_","v">>)
S__u == Chars(<<"_","_","u">>)
S__k == Chars(<<"_","_","k">>)
S__jsm == Chars(<<"_","_","j","s","m">>)
S__r == Chars(<<"_","_","r">>)
S__e == Chars(<<"_","_","e">>)
S__c == Chars(<<"_","_","c">>)
S__j == Chars(<<"_","_","j">>)
S__smm == Chars(<<"_","_","s","m","m">>)
S__remm == Chars(<<"_","_","r","e","m","m">>)
S__f == Chars(<<"_","_","f">>)
S__aev == Chars(<<"_","_","a","e","v">>)

\* s.length > n ? s.substring(0, n) + '...' : s, for s written by character
Ellipsis(s, n) == IF StrLength(s) > n THEN Take(s, n) \o Lit("...", 3) ELSE s

identifyVariableType_(macro) ==
    LET func == OrElse(Get(macro, "function"), Str(<<>>)) IN
    IF StrEq(func, S__v) THEN Str(Lit("Data Layer Variable", 19))
    ELSE IF StrEq(func, S__u) THEN Str(Lit("URL", 3))
    ELSE IF StrEq(func, S__k) THEN Str(Lit("Constant", 8))
    ELSE IF StrEq(func, S__jsm) THEN Str(Lit("Custom JavaScript", 17))
    ELSE IF StrEq(func, S__r) THEN Str(Lit("Random Number", 13))
    ELSE IF StrEq(func, S__e) THEN Str(Lit("Environment", 11))
    ELSE IF StrEq(func, S__c) THEN Str(Lit("Container ID", 12))
    ELSE IF StrEq(func, S__j) THEN Str(Lit("JavaScript Variable", 19))
    ELSE IF StrEq(func, S__smm) THEN Str(Lit("Regex Table", 11))
    ELSE OrElse(func, Str(Lit("Unknown", 7)))

summarizeVariableDetails_(macro) ==
    IF Truthy(Get(macro, "vtp_name"))
    THEN Lit("dataLayer: ", 11) \o ToStr(Get(macro, "vtp_name"))
    ELSE IF Truthy(Get(macro, "vtp_component"))
    THEN Lit("URL component: ", 15) \o ToStr(Get(macro, "vtp_component"))
    ELSE IF Truthy(Get(macro, "vtp_value"))
    THEN Lit("Value: ", 7) \o Take(ToStr(Get(macro, "vtp_value")), 50)
    ELSE <<>>

extractDefaultValue_(macro) ==
    IF /\ IsTrue(Get(macro, "vtp_setDefaultValue"))
       /\ Get(macro, "vtp_defaultValue").t # "undefined"
    THEN Ellipsis(ToStr(Get(macro, "vtp_defaultValue")), 100)
    ELSE <<>>

\* a faulty reader of the path that looks at vtp_name only
extractDataLayerPath_NameOnly(macro) ==
    IF StrEq(Get(macro, "function"), S__v) /\ Truthy(Get(macro, "vtp_name"))
    THEN Get(macro, "vtp_name")
    ELSE Str(<<>>)

extractDataLayerPath_(macro) ==
    IF StrEq(Get(macro, "function"), S__v) /\ Truthy(Get(macro, "vtp_name"))
    THEN Get(macro, "vtp_name")
    ELSE IF Truthy(Get(macro, "vtp_dataLayerVariable"))
    THEN Get(macro, "vtp_dataLayerVariable")
    ELSE Str(<<>>)

\* the descriptive name of a macro that carries none
BuiltInName(macro, idx) ==
    LET func == OrElse(Get(macro, "function"), Str(<<>>)) IN
    IF StrEq(func, S__k) /\ Truthy(Get(macro, "vtp_name"))
    THEN Lit("Cookie: ", 8) \o ToStr(Get(macro, "vtp_name"))
    ELSE IF StrEq(func, S__k) /\ Truthy(Get(macro, "vtp_value"))
    THEN Lit("Constant: ", 10) \o Ellipsis(ToStr(Get(macro, "vtp_value")), 30)
    ELSE IF StrEq(func, S__u) /\ Truthy(Get(macro, "vtp_component"))
    THEN Lit("URL - ", 6) \o ToStr(Get(macro, "vtp_component"))
            \o (IF Truthy(Get(macro, "vtp_queryKey"))
                THEN Lit(": ", 2) \o ToStr(Get(macro, "vtp_queryKey"))
                ELSE <<>>)
    ELSE IF StrEq(func, S__v) /\ Truthy(Get(macro, "vtp_name"))
    THEN Lit("DL: ", 4) \o ToStr(Get(macro, "vtp_name"))
    ELSE IF StrEq(func, S__jsm) THEN Lit("Custom JS #", 11) \o NumStr(idx)
    ELSE IF StrEq(func, S__c) /\ Truthy(Get(macro, "vtp_value"))
    THEN Lit("Container: ", 11) \o ToStr(Get(macro, "vtp_value"))
    ELSE IF StrEq(func, S__smm) \/ StrEq(func, S__remm)
    THEN Lit("Lookup Table #", 14) \o NumStr(idx)
    ELSE IF StrEq(func, S__e) THEN Lit("Environment Name", 16)
    ELSE IF StrEq(func, S__r) THEN Lit("Random Number", 13)
    ELSE IF StrEq(func, S__f) THEN Lit("Referrer URL", 12)
    ELSE IF StrEq(func, S__aev) THEN Lit("Auto-Event Variable", 19)
    ELSE Lit("Variable #", 10) \o NumStr(idx) \o Lit(" (", 2) \o ToStr(func)
            \o Lit(")", 1)

parseGtmVariable_(macro, idx, containerId, entities) ==
    IF IsNullish(macro) THEN Threw
    ELSE
    LET byField == OrElse(Get(macro, "name"), Str(<<>>))
        byMetadata == IF Truthy(byField) THEN byField ELSE MetadataName(macro)
        byVtp == IF ~Truthy(byMetadata) /\ Truthy(Get(macro, "vtp_name"))
                 THEN Get(macro, "vtp_name") ELSE byMetadata
        varName == IF Truthy(byVtp) THEN byVtp
                   ELSE Str(BuiltInName(macro, idx))
    IN Ok([containerId |-> Str(containerId),
           id |-> OrElse(Get(macro, "function"),
                         Str(Lit("var_", 4) \o NumStr(idx))),
           name |-> varName,
           type |-> identifyVariableType_(macro),
           defaultValue |-> Str(extractDefaultValue_(macro)),
           dataLayerPath |-> extractDataLayerPath_(macro),
           detailsSummary |-> Str(summarizeVariableDetails_(macro)),
           raw |-> Json(macro)])

\* ------------------------------------------------------ parseContainerData_
EmptyObject == Obj(<<>>)

\* the outcome of array.map(f) given the outcomes of f on the elements
MapAll(outcomes) ==
    IF \E i \in 1..Len(outcomes) : outcomes[i].thrown THEN Threw
    ELSE Ok([i \in 1..Len(outcomes) |-> outcomes[i].value])

parseContainerData_(data, containerId) ==
    LET entities == OrElse(Get(data, "entities"), EmptyObject)
        dtags == Get(data, "tags")
        dmacros == Get(data, "macros")
        rawData == Obj([tags |-> OrElse(dtags, Arr(<<>>)),
                        predicates |-> OrElse(Get(data, "predicates"), Arr(<<>>)),
                        rules |-> OrElse(Get(data, "rules"), Arr(<<>>)),
                        macros |-> OrElse(dmacros, Arr(<<>>)),
                        entities |-> entities])
        tags == IF Truthy(dtags) /\ IsArray(dtags)
                THEN MapAll([i \in 1..Len(dtags.v) |->
                        parseGtmTag_(dtags.v[i], i - 1, containerId, entities)])
                ELSE Ok(<<>>)
        triggers == IF Truthy(Get(data, "predicates")) /\ Truthy(Get(data, "rules"))
                    THEN parseGtmTriggers_(Get(data, "predicates"),
                                           Get(data, "rules"), containerId)
                    ELSE Ok(<<>>)
        variables == IF Truthy(dmacros) /\ IsArray(dmacros)
                     THEN MapAll([i \in 1..Len(dmacros.v) |->
                        parseGtmVariable_(dmacros.v[i], i - 1, containerId, entities)])
                     ELSE Ok(<<>>)
    IN IF tags.thrown \/ triggers.thrown \/ variables.thrown THEN Threw
       ELSE Ok([tags |-> tags.value,
                triggers |-> triggers.value,
                variables |-> variables.value,
                rawData |-> rawData])

\* ------------------------------------------------- source text and parsing
\* Tokens of the fetched source besides the one-character ones:
\*   lead tokens, the text in front of an object literal
\*     "varData"      var data =
\*     "gtmDouble"    google_tag_manager["<id>"]=
\*     "gtmSingle"    google_tag_manager['<id>']=
\*     "push"         .push(
\*   ")"              a closing parenthesis
\*   "resourceKey"    "resource":   (syn "json")  or  'resource':  (syn "js")
\*   "member"         one key: value member of an object literal, with the
\*                    value it denotes; syn is "json" for JSON text, "js" for
\*                    text only JavaScript accepts, "bad" for text neither
\*                    accepts; paren tells whether the text holds a ")".
\*                    Finer classes of syn, for the texts that are cleaned
\*                    before they are parsed:
\*                      "single"        'k': 'v'
\*                      "trailing"      "k": 1,   in front of the brace
\*                      "comment"       "k": 1 /* c */
\*                      "unquoted"      k: 1
\*                      "apostrophe"    "k": "it's"
\*                      "url"           "k": "http://x"
\*                      "blockInString" "k": "a/*c*/b"
\*   "text"           any other text without braces and quotes
\* ids lists the vendor identifier literals inside the token's text.
LeadVarData == [c |-> "varData", w |-> 11]
LeadGtmDouble(id) == [c |-> "gtmDouble", w |-> 23 + StrLength(id), id |-> id]
LeadGtmSingle(id) == [c |-> "gtmSingle", w |-> 23 + StrLength(id), id |-> id]
LeadPush == [c |-> "push", w |-> 6]
CloseParen == [c |-> ")", w |-> 1]
ResourceKey(syn) == [c |-> "resourceKey", w |-> 11, syn |-> syn]
Member(key, val, syn, w, paren, ids) ==
    [c |-> "member", w |-> w, key |-> key, val |-> val, syn |-> syn,
     paren |-> paren, ids |-> ids]
Text(w, ids) == [c |-> "text", w |-> w, ids |-> ids]

\* the token's text holds a ")"
HasParen(tok) ==
    \/ tok.c = ")"
    \/ tok.c = "member" /\ tok.paren

\* the token's text starts with "resource" in double quotes
StartsResource(tok) ==
    \/ tok.c = "resourceKey" /\ tok.syn = "json"
    \/ tok.c = "member" /\ tok.syn = "json" /\ tok.key = "resource"

\* the object f with property k set to x
Put(f, k, x) == [p \in (DOMAIN f) \cup {k} |-> IF p = k THEN x ELSE f[p]]

NoParse == [ok |-> FALSE, value |-> Undefined, next |-> 0]

\* the syntax classes a parser accepts: JSON.parse takes JSON text, whatever
\* its strings hold; eval takes also what only JavaScript allows
StrictSyntax == {"json", "apostrophe", "url", "blockInString"}
ScriptSyntax == {"js", "single", "trailing", "comment", "unquoted"}

Accepts(strict, syn) ==
    IF strict THEN syn \in StrictSyntax
    ELSE syn \in StrictSyntax \cup ScriptSyntax

\* the members of an object literal from element i (1-based) to its closing
\* brace
RECURSIVE ParseMembers(_, _, _, _)
ParseMembers(e, i, fields, strict) ==
    IF i > Len(e) THEN NoParse
    ELSE LET tok == e[i] IN
         IF tok.c = "}" THEN [ok |-> TRUE, value |-> Obj(fields), next |-> i + 1]
         ELSE IF tok.c = "member" /\ Accepts(strict, tok.syn)
         THEN ParseMembers(e, i + 1, Put(fields, tok.key, tok.val), strict)
         ELSE IF /\ tok.c = "resourceKey" /\ Accepts(strict, tok.syn)
                 /\ i + 1 <= Len(e) /\ e[i + 1].c = "{"
         THEN LET sub == ParseMembers(e, i + 2, <<>>, strict) IN
              IF sub.ok
              THEN ParseMembers(e, sub.next, Put(fields, "resource", sub.value),
                                strict)
              ELSE NoParse
         ELSE NoParse

ParseLiteral(e, strict) ==
    IF e # <<>> /\ e[1].c = "{"
    THEN LET r == ParseMembers(e, 2, <<>>, strict) IN
         IF r.ok /\ r.next = Len(e) + 1 THEN Ok(r.value) ELSE Threw
    ELSE Threw

\* JSON.parse(extracted)
JsonParse(e) == ParseLiteral(e, TRUE)

\* eval('(function() { return ' + extracted + '; })()')
EvalLiteral(e) == ParseLiteral(e, FALSE)

\* ------------------------------------------------------------ the locator
\* size thresholds of the push strategy and of the exhaustive search
PushMinLength == 1000
ObjectMinLength == 5000
\* the exhaustive search: window of object starts, candidates parsed, and
\* the tail of the text in which no object start is looked for
ObjectStartCap == 1000
CandidateCap == 20
TailSkip == 100

\* the patterns of the strategies, as tests on a lead token
LeadMatches(tok, kind, containerId) ==
    CASE kind = "varData" -> tok.c = "varData"
      [] kind = "direct" -> tok.c = "gtmDouble" /\ SameString(tok.id, containerId)
      [] kind = "window" -> /\ tok.c \in {"gtmDouble", "gtmSingle"}
                            /\ SameString(tok.id, containerId)
      [] kind = "push" -> tok.c = "push"

\* the indices of the opening braces that follow a lead of the kind
Sites(rawJs, kind, containerId) ==
    {i \in 1..(Len(rawJs) - 1) :
        /\ LeadMatches(rawJs[i], kind, containerId)
        /\ CharAt(rawJs, i) = "{"}

Min(S) == CHOOSE x \in S : \A y \in S : x <= y
Max(S) == CHOOSE x \in S : \A y \in S : x >= y

\* what a strategy hands to parseContainerData_, or why it hands nothing
Candidate(data) == [status |-> "accepted", data |-> data]
NoCandidate(why) == [status |-> why, data |-> Undefined]

\* a lead pattern, the object after its first match, and an evaluator
AssignmentCandidate(rawJs, kind, containerId, strict) ==
    IF Sites(rawJs, kind, containerId) = {} THEN NoCandidate("nomatch")
    ELSE LET startIdx == Min(Sites(rawJs, kind, containerId))
             extracted == extractCompleteObject_(rawJs, startIdx)
             data == ParseLiteral(extracted.text, strict)
         IN IF ~extracted.found THEN NoCandidate("noextract")
            ELSE IF data.thrown THEN NoCandidate("noparse")
            ELSE Candidate(data.value)

\* Strategy 0: var data = {...}, evaluated as JavaScript
Strategy0(rawJs, containerId) ==
    LET c == AssignmentCandidate(rawJs, "varData", containerId, FALSE) IN
    IF c.status = "accepted" /\ Truthy(Get(c.data, "resource"))
    THEN Candidate(Get(c.data, "resource"))
    ELSE c

\* Strategy 1: google_tag_manager["<id>"]={...}, parsed as JSON
Strategy1(rawJs, containerId) ==
    AssignmentCandidate(rawJs, "direct", containerId, TRUE)

\* /\.push\s*\(\s*(\{[^)]+\})\s*\)/ matches somewhere
PushPatternMatches(rawJs) ==
    \E i \in Sites(rawJs, "push", <<>>) :
        \E j \in (i + 2)..(Len(rawJs) - 2) :
            /\ CharAt(rawJs, j) = "}"
            /\ CharAt(rawJs, j + 1) = ")"
            /\ \A m \in (i + 1)..(j - 1) : ~HasParen(rawJs[m + 1])

\* a faulty loop that gives up at the first call site it cannot accept
PushScanStopping(rawJs, sites, n) ==
    IF n > Len(sites) THEN NoCandidate("rejected")
    ELSE LET extracted == extractCompleteObject_(rawJs, sites[n])
             data == JsonParse(extracted.text)
         IN IF /\ extracted.found
               /\ StrLength(extracted.text) > PushMinLength
               /\ ~data.thrown
               /\ \/ Truthy(Get(data.value, "tags"))
                  \/ Truthy(Get(data.value, "macros"))
                  \/ Truthy(Get(data.value, "resource"))
            THEN Candidate(OrElse(Get(data.value, "resource"), data.value))
            ELSE NoCandidate("rejected")

\* the loop of extractJsonFromPush_ over the call sites from the n-th on
RECURSIVE PushScan(_, _, _)
PushScan(rawJs, sites, n) ==
    IF n > Len(sites) THEN NoCandidate("rejected")
    ELSE LET extracted == extractCompleteObject_(rawJs, sites[n])
             data == JsonParse(extracted.text)
         IN IF /\ extracted.found
               /\ StrLength(extracted.text) > PushMinLength
               /\ ~data.thrown
               /\ \/ Truthy(Get(data.value, "tags"))
                  \/ Truthy(Get(data.value, "macros"))
                  \/ Truthy(Get(data.value, "resource"))
            THEN Candidate(OrElse(Get(data.value, "resource"), data.value))
            ELSE PushScan(rawJs, sites, n + 1)

\* the elements of a set of indices in increasing order
Ascending(S) ==
    IF S = {} THEN <<>>
    ELSE SelectSeq([k \in 1..(Max(S) + 1) |-> k - 1], LAMBDA x : x \in S)

extractJsonFromPush_(rawJs) ==
    PushScan(rawJs, Ascending(Sites(rawJs, "push", <<>>)), 1)

\* Strategy 2: .push({...})
Strategy2(rawJs, containerId) ==
    IF ~PushPatternMatches(rawJs) THEN NoCandidate("nomatch")
    ELSE extractJsonFromPush_(rawJs)

\* Strategy 3: google_tag_manager [ "<id>" or '<id>' ] = {...}
Strategy3(rawJs, containerId) ==
    AssignmentCandidate(rawJs, "window", containerId, TRUE)

\* Strategy 4: {"resource":{...}}
Strategy4(rawJs, containerId) ==
    IF ~\E i \in 0..(Len(rawJs) - 3) :
            /\ CharAt(rawJs, i) = "{"
            /\ rawJs[i + 2].c = "resourceKey" /\ rawJs[i + 2].syn = "json"
            /\ CharAt(rawJs, i + 2) = "{"
    THEN NoCandidate("nomatch")
    ELSE LET startIdx == Min({i \in 0..(Len(rawJs) - 2) :
                                 /\ CharAt(rawJs, i) = "{"
                                 /\ StartsResource(rawJs[i + 2])})
             extracted == extractCompleteObject_(rawJs, startIdx)
             resource == JsonParse(extracted.text)
         IN IF ~extracted.found THEN NoCandidate("noextract")
            ELSE IF resource.thrown THEN NoCandidate("noparse")
            ELSE IF Truthy(Get(resource.value, "resource"))
            THEN Candidate(Get(resource.value, "resource"))
            ELSE NoCandidate("rejected")

\* a.slice(-n): the last n elements
LastN(a, n) == IF Len(a) > n THEN SubSeq(a, Len(a) - n + 1, Len(a)) ELSE a

\* x put into a list sorted by length descending, behind the entries that
\* are at least as long
RECURSIVE InsertByLength(_, _)
InsertByLength(sorted, x) ==
    IF sorted = <<>> THEN <<x>>
    ELSE IF StrLength(Head(sorted)) >= StrLength(x)
    THEN <<Head(sorted)>> \o InsertByLength(Tail(sorted), x)
    ELSE <<x>> \o sorted

\* a faulty sort that leaves the candidates in source order
SortByLengthUnsorted(a) == a

\* candidates.sort((a, b) => b.extracted.length - a.extracted.length)
RECURSIVE SortByLength(_)
SortByLength(a) ==
    IF a = <<>> THEN <<>>
    ELSE InsertByLength(SortByLength(SubSeq(a, 1, Len(a) - 1)), a[Len(a)])

\* the texts extracted at the given starts that exceed the minimum length
LargeObjects(rawJs, starts) ==
    LET large == SelectSeq([k \in 1..Len(starts) |->
                               extractCompleteObject_(rawJs, starts[k])],
                           LAMBDA e : e.found /\ StrLength(e.text) > ObjectMinLength)
    IN [k \in 1..Len(large) |-> large[k].text]

\* the first candidate that parses to an object with a tags or macros array
RECURSIVE FirstContainer(_)
FirstContainer(candidates) ==
    IF candidates = <<>> THEN NoCandidate("rejected")
    ELSE LET data == JsonParse(Head(candidates)) IN
         IF /\ ~data.thrown
            /\ \/ Truthy(Get(data.value, "tags")) /\ IsArray(Get(data.value, "tags"))
               \/ Truthy(Get(data.value, "macros"))
                    /\ IsArray(Get(data.value, "macros"))
         THEN Candidate(data.value)
         ELSE FirstContainer(Tail(candidates))

findContainerDataObject_(rawJs) ==
    LET length == StrLength(rawJs)
        objectStarts ==
            LastN(SelectSeq([k \in 1..Len(rawJs) |-> k - 1],
                            LAMBDA i : /\ CharAt(rawJs, i) = "{"
                                       /\ Pos(rawJs, i) < length - TailSkip),
                  ObjectStartCap)
        candidates == SortByLength(LargeObjects(rawJs, objectStarts))
    IN FirstContainer(Take(candidates, CandidateCap))

\* Strategy 5: the exhaustive search
Strategy5(rawJs, containerId) == findContainerDataObject_(rawJs)

Strategies == 0..5

StrategyCandidate(k, rawJs, containerId) ==
    CASE k = 0 -> Strategy0(rawJs, containerId)
      [] k = 1 -> Strategy1(rawJs, containerId)
      [] k = 2 -> Strategy2(rawJs, containerId)
      [] k = 3 -> Strategy3(rawJs, containerId)
      [] k = 4 -> Strategy4(rawJs, containerId)
      [] k = 5 -> Strategy5(rawJs, containerId)

\* the strategy accepts a candidate and the decode of it completes: the
\* strategy reaches its return statement
Returns(k, rawJs, containerId) ==
    LET c == StrategyCandidate(k, rawJs, containerId) IN
    c.status = "accepted" /\ ~parseContainerData_(c.data, containerId).thrown

\* the strategy whose return statement ends the locator, -1 when none does
ReturningStrategy(rawJs, containerId) ==
    IF \E k \in Strategies : Returns(k, rawJs, containerId)
    THEN Min({k \in Strategies : Returns(k, rawJs, containerId)})
    ELSE -1

\* the model the locator starts from and returns when no strategy returns
EmptyModel ==
    [tags |-> <<>>, triggers |-> <<>>, variables |-> <<>>, rawData |-> Undefined]

extractContainerModelFromRawJs_(rawJs, containerId) ==
    LET k == ReturningStrategy(rawJs, containerId) IN
    IF k = -1 THEN EmptyModel
    ELSE parseContainerData_(StrategyCandidate(k, rawJs, containerId).data,
                             containerId).value

\* -------------------------------------------------------- the vendor scan
\* the patterns of analyzeVendorsFromRawJs_ in the order it applies them,
\* with the vendor, the id type and the prefix of the key kept in seen
VendorPatterns ==
    <<[pat |-> "ga4", vendor |-> Lit("Google Analytics", 16),
       type |-> Lit("GA4 Measurement ID", 18), prefix |-> ""],
      [pat |-> "ua", vendor |-> Lit("Google Analytics", 16),
       type |-> Lit("UA Property ID", 14), prefix |-> ""],
      [pat |-> "aw", vendor |-> Lit("Google Ads", 10),
       type |-> Lit("Conversion ID", 13), prefix |-> ""],
      [pat |-> "dc", vendor |-> Lit("Floodlight", 10),
       type |-> Lit("Advertiser ID", 13), prefix |-> ""],
      [pat |-> "fb", vendor |-> Lit("Meta (Facebook)", 15),
       type |-> Lit("Pixel ID", 8), prefix |-> "fb_"],
      [pat |-> "tt", vendor |-> Lit("TikTok", 6),
       type |-> Lit("Pixel ID", 8), prefix |-> "tt_"],
      [pat |-> "li", vendor |-> Lit("LinkedIn", 8),
       type |-> Lit("Partner ID", 10), prefix |-> "li_"],
      [pat |-> "pin", vendor |-> Lit("Pinterest", 9),
       type |-> Lit("Tag ID", 6), prefix |-> "pin_"]>>

\* the identifier literals in the text of a token
IdsOf(tok) == IF tok.c \in {"member", "text"} THEN tok.ids ELSE <<>>

\* the matches of one pattern over the text, in order of position
RECURSIVE MatchesOf(_, _)
MatchesOf(rawJs, pat) ==
    IF rawJs = <<>> THEN <<>>
    ELSE SelectSeq(IdsOf(Head(rawJs)), LAMBDA m : m.pat = pat)
            \o MatchesOf(Tail(rawJs), pat)

\* a faulty loop that pushes a hit for every match, seen or not
RECURSIVE ScanMatchesUnchecked(_, _, _, _)
ScanMatchesUnchecked(matches, p, containerId, acc) ==
    IF matches = <<>> THEN acc
    ELSE ScanMatchesUnchecked(Tail(matches), p, containerId,
            [seen |-> acc.seen \cup {p.prefix \o Head(matches).id},
             vendors |-> Append(acc.vendors,
                 [containerId |-> Str(containerId),
                  vendor |-> Str(p.vendor),
                  type |-> Str(p.type),
                  id |-> Str(Lit(Head(matches).id, Head(matches).len)),
                  extra |-> Str(<<>>)])])

\* the while loop of one pattern: matches not seen yet become hits
RECURSIVE ScanMatches(_, _, _, _)
ScanMatches(matches, p, containerId, acc) ==
    IF matches = <<>> THEN acc
    ELSE LET key == p.prefix \o Head(matches).id IN
         IF key \in acc.seen
         THEN ScanMatches(Tail(matches), p, containerId, acc)
         ELSE ScanMatches(Tail(matches), p, containerId,
                 [seen |-> acc.seen \cup {key},
                  vendors |-> Append(acc.vendors,
                      [containerId |-> Str(containerId),
                       vendor |-> Str(p.vendor),
                       type |-> Str(p.type),
                       id |-> Str(Lit(Head(matches).id, Head(matches).len)),
                       extra |-> Str(<<>>)])])

RECURSIVE ScanPatterns(_, _, _, _)
ScanPatterns(rawJs, n, containerId, acc) ==
    IF n > Len(VendorPatterns) THEN acc
    ELSE ScanPatterns(rawJs, n + 1, containerId,
            ScanMatches(MatchesOf(rawJs, VendorPatterns[n].pat),
                        VendorPatterns[n], containerId, acc))

analyzeVendorsFromRawJs_(rawJs, containerId, tags) ==
    ScanPatterns(rawJs, 1, containerId, [seen |-> {}, vendors |-> <<>>]).vendors

\* ------------------------------------------------------- extractor machine
\* a run of plain characters, two short of the scan window: one such run
\* fits between the braces of an object the scan can close, two do not
Filler == [c |-> "a", w |-> ScanCap - 2]

Alphabet == {Chr("{"), Chr("}"), Chr(Quote), Chr(Backslash), Filler}

TextsOfLen(n) == [1..n -> Alphabet]

Texts == UNION {TextsOfLen(n) : n \in 1..MaxLen}

BraceStarts(t) == {i \in 0..(Len(t) - 1) : CharAt(t, i) = "{"}

ExtractOff == text = <<>> /\ start = 0 /\ out = NoObject /\ xpc = "off"
DecodeOff ==
    doc = Undefined /\ decoded = Threw /\ dpc = "off" /\ again = Threw
LocateOff == src = <<>> /\ located = EmptyModel /\ lpc = "off"

\* a spreadsheet with no sheet of the inspector, and no handler run yet
OutputSheets == {"GTM_Tags", "GTM_Triggers", "GTM_Variables", "GTM_Vendors"}

NoSheet == [exists |-> FALSE, rows |-> <<>>]
NoResponse == [kind |-> "none", code |-> 0, text |-> <<>>, message |-> <<>>]
NoRun == [op |-> "none", containerId |-> <<>>, resp |-> NoResponse, steps |-> {}]

RunOff ==
    /\ config = [exists |-> FALSE, a2 |-> <<>>]
    /\ tables = [n \in OutputSheets |-> NoSheet]
    /\ aux = [readme |-> FALSE, debug |-> NoSheet, raw |-> NoSheet,
              summary |-> NoSheet]
    /\ alerts = <<>>
    /\ last = NoRun

ScanOff == scanText = <<>> /\ scanHits = <<>> /\ spc = "off"

RecordOff == rawItem = Undefined /\ decodedItem = Threw /\ ipc = "off"

EvalOff == objText = <<>> /\ parsedOut = [thrown |-> TRUE, value |-> <<>>, tiers |-> <<>>] /\ epc = "off"

BuildOff == loaded = "SheetUtils"

CrawlOff ==
    /\ inventory = <<>>
    /\ crawlConfig = [maxPages |-> 1, maxDepth |-> 1]
    /\ cpc = "off"
    /\ picked = [act |-> "none", url |-> 0]
    /\ crawlAlert = ""

SearchOff ==
    /\ searchText = <<>>
    /\ searchOut = [status |-> "off", data |-> Undefined]
    /\ fpc = "off"

ExtractInit ==
    /\ text \in Texts
    /\ start \in BraceStarts(text)
    /\ out = NoObject
    /\ xpc = "ready"
    /\ DecodeOff
    /\ LocateOff
    /\ RunOff
    /\ ScanOff
    /\ RecordOff
    /\ EvalOff
    /\ BuildOff
    /\ CrawlOff
    /\ SearchOff

\* a caller hands the text and the index of an opening brace to the extractor
ExtractObject ==
    /\ xpc = "ready"
    /\ out' = extractCompleteObject_(text, start)
    /\ xpc' = "done"
    /\ UNCHANGED <<text, start, decodeVars, locateVars, runVars, scanVars, recordVars, evalVars, buildVars, crawlVars, searchVars>>

ExtractNext == ExtractObject

SpecExtract == ExtractInit /\ [][ExtractNext]_vars

\* --------------------------------------------------------- decoder machine
CID == Lit("GTM-TEST1", 9)

\* all sequences over pool of length at most n
SeqsUpTo(pool, n) == UNION {[1..k -> pool] : k \in 0..n}

\* raw tags: well-formed ones, a null entry, a tracking id that is a number
TagHtmlFbq == Obj([function |-> Str(S__html),
                   vtp_html |-> Str(Chars(<<"f","b","q","(","1",")">>))])
TagGa4 == Obj([function |-> Str(Chars(<<"_","_","g","a","a","w","e">>)),
               vtp_measurementId |-> Str(Chars(<<"G","-","A","1">>))])
TagUa == Obj([function |-> Str(S__ua),
              vtp_trackingId |-> Str(Chars(<<"U","A","-","1">>))])
TagNumericId == Obj([function |-> Str(S__ua), vtp_trackingId |-> Num(12345)])
GoodTags == {TagHtmlFbq, TagGa4, TagUa}
MalformedTags == {Null, TagNumericId}
TagPool == GoodTags \cup MalformedTags

\* predicates: ["equals", ["macro", 0], "buy"], ["cn", ["macro", 1], "/c"]
PredEvent == Arr(<<Str(Chars(<<"e","q","u","a","l","s">>)),
                   Arr(<<Str(Chars(<<"m","a","c","r","o">>)), Num(0)>>),
                   Str(Chars(<<"b","u","y">>))>>)
PredUrl == Arr(<<Str(Chars(<<"c","n">>)),
                 Arr(<<Str(Chars(<<"m","a","c","r","o">>)), Num(1)>>),
                 Str(Chars(<<"/","c">>))>>)
PredicateArrays == {Arr(<<>>), Arr(<<PredEvent>>), Arr(<<PredEvent, PredUrl>>),
                    Arr(<<Null, PredUrl>>)}

\* rules: positive and negative condition lists over indices -1 .. 2
RuleIndices == {Num(-1), Num(0), Num(1), Num(2)}
RuleAddLists ==
    SeqsUpTo(RuleIndices, 1)
        \cup {<<Num(0), Num(1)>>, <<Num(0), Num(2)>>, <<Num(1), Num(2)>>,
              <<Num(2), Num(-1)>>}
GoodRules ==
    {Obj([add |-> Arr(a)]) : a \in RuleAddLists}
        \cup {Obj([add |-> Arr(<<Num(0)>>), unless |-> Arr(<<u>>)]) :
                 u \in RuleIndices}
        \cup {EmptyObject}
MalformedRules == {Null}
RulePool == GoodRules \cup MalformedRules

\* macros
MacroDataLayer == Obj([function |-> Str(S__v),
                       vtp_name |-> Str(Chars(<<"a",".","b">>))])
MacroConstant == Obj([function |-> Str(S__k),
                      vtp_value |-> Str(Chars(<<"x">>))])
MacroOther == Obj([function |-> Str(Chars(<<"_","_","z","z">>))])
GoodMacros == {MacroDataLayer, MacroConstant, MacroOther}
MalformedMacros == {Null}
MacroPool == GoodMacros \cup MalformedMacros

\* a raw container document
Document(tags, predicates, rules, macros) ==
    Obj([tags |-> Arr(tags), predicates |-> predicates,
         rules |-> Arr(rules), macros |-> Arr(macros)])

\* a faulty decode that takes the tags out of the document as it reads them
DataAfterParseConsumed(data) ==
    IF data.t = "obj" /\ "tags" \in DOMAIN data.v
    THEN Obj([data.v EXCEPT !.tags = Arr(<<>>)])
    ELSE data

\* the document as a decode leaves it: parseContainerData_ and the functions
\* it calls read data and its members, and assign to none of them (every
\* push goes to an array the decode created)
DataAfterParse(data) == data

\* documents that vary one source array against well-formed others
Documents ==
    {Document(t, Arr(<<PredEvent>>), <<Obj([add |-> Arr(<<Num(0)>>)])>>,
              <<MacroDataLayer>>) : t \in SeqsUpTo(TagPool, MaxItems)}
    \cup {Document(<<TagHtmlFbq>>, p, r, <<MacroDataLayer>>) :
              p \in PredicateArrays, r \in SeqsUpTo(RulePool, MaxItems)}
    \cup {Document(<<TagHtmlFbq>>, Arr(<<PredEvent>>),
                   <<Obj([add |-> Arr(<<Num(0)>>)])>>, m) :
              m \in SeqsUpTo(MacroPool, MaxItems)}

DecodeInit ==
    /\ doc \in Documents
    /\ decoded = Threw
    /\ again = Threw
    /\ dpc = "ready"
    /\ ExtractOff
    /\ LocateOff
    /\ RunOff
    /\ ScanOff
    /\ RecordOff
    /\ EvalOff
    /\ BuildOff
    /\ CrawlOff
    /\ SearchOff

\* decode(doc)
Decode ==
    /\ dpc = "ready"
    /\ decoded' = parseContainerData_(doc, CID)
    /\ doc' = DataAfterParse(doc)
    /\ dpc' = "done"
    /\ UNCHANGED <<again, extractVars, locateVars, runVars, scanVars, recordVars, evalVars, buildVars, crawlVars, searchVars>>

\* a second decode(doc) of the document the first decode left behind
DecodeAgain ==
    /\ dpc = "done"
    /\ again' = parseContainerData_(doc, CID)
    /\ doc' = DataAfterParse(doc)
    /\ dpc' = "again"
    /\ UNCHANGED <<decoded, extractVars, locateVars, runVars, scanVars, recordVars, evalVars, buildVars, crawlVars, searchVars>>

DecodeNext ==
    \/ Decode
    \/ DecodeAgain

SpecDecode == DecodeInit /\ [][DecodeNext]_vars

\* --------------------------------------------------------- locator machine
CID2 == Lit("GTM-OTHER", 9)

\* the tag of the end-to-end scenario: a Custom HTML tag with a Meta pixel
TagPixel ==
    Obj([function |-> Str(S__html),
         vtp_html |-> Str(Lit("<script>", 8) \o S_fbq
                            \o Lit("'init','123456789012345');</script>", 35))])
TagMeasure ==
    Obj([function |-> Str(S__googtag),
         vtp_tagId |-> Str(S_Gdash \o Lit("ABCDEFG1", 8))])

TagProperty ==
    Obj([function |-> Str(S__ua),
         vtp_trackingId |-> Str(Chars(<<"U","A","-">>) \o Lit("123456-1", 8))])

PixelId == [pat |-> "fb", id |-> "123456789012345", len |-> 15]
MeasureId == [pat |-> "ga4", id |-> "G-ABCDEFG1", len |-> 10]
UaId == [pat |-> "ua", id |-> "UA-123456-1", len |-> 11]

\* members of object literals
MemberTagsPixel == Member("tags", Arr(<<TagPixel>>), "json", 91, TRUE, <<PixelId>>)
MemberTagsTwo ==
    Member("tags", Arr(<<TagMeasure, TagProperty>>), "json", 110, FALSE,
           <<MeasureId, UaId>>)
MemberTagsNull == Member("tags", Arr(<<TagMeasure, Null>>), "json", 64, FALSE,
                         <<MeasureId>>)
MemberMacros == Member("macros", Arr(<<MacroDataLayer>>), "json", 47, FALSE, <<>>)
MemberOther == Member("gtm.start", Num(1), "json", 14, FALSE, <<>>)
MemberSingleQuoted == Member("version", Str(Chars(<<"1">>)), "js", 14, FALSE, <<>>)
MemberBad == Member("", Undefined, "bad", 5, FALSE, <<>>)
Pad(n) == Member("pad", Str(Lit("x", n - 9)), "json", n, FALSE, <<>>)

Braced(members) == <<Chr("{")>> \o members \o <<Chr("}")>>

\* object literals: by size, syntax, wrapping and content
LitSmall == Braced(<<MemberTagsPixel>>)
LitMedium == Braced(<<Pad(1000), MemberTagsTwo>>)
LitLarge == Braced(<<Pad(5000), MemberTagsTwo, MemberMacros>>)
LitWrapped == Braced(<<ResourceKey("json")>> \o LitSmall)
LitWrappedLarge == Braced(<<Pad(1000), ResourceKey("json")>> \o LitLarge)
LitScript == Braced(<<MemberSingleQuoted, MemberTagsPixel>>)
LitGarbage == Braced(<<MemberBad>>)
LitOpen == <<Chr("{"), MemberTagsPixel>>
LitOther == Braced(<<Pad(1000), MemberOther>>)
LitNull == Braced(<<Pad(1000), MemberTagsNull>>)
LitNullLarge == Braced(<<Pad(5000), MemberTagsNull>>)
LitMediumPixel == Braced(<<Pad(1000), MemberTagsPixel>>)

Literals == {LitSmall, LitMedium, LitLarge, LitWrapped, LitWrappedLarge,
             LitScript, LitGarbage, LitOpen, LitOther, LitNull, LitNullLarge,
             LitMediumPixel}

\* a literal behind each lead, or behind none
Segments ==
    Literals
        \cup {<<LeadVarData>> \o l : l \in Literals}
        \cup {<<LeadGtmDouble(CID)>> \o l : l \in Literals}
        \cup {<<LeadGtmSingle(CID)>> \o l : l \in Literals}
        \cup {<<LeadPush>> \o l \o <<CloseParen>> : l \in Literals}

\* the text made of the segments of f, in order
RECURSIVE Concat(_)
Concat(f) == IF Len(f) = 0 THEN <<>> ELSE Head(f) \o Concat(Tail(f))

LocateInit ==
    /\ \E n \in 0..MaxSegments : \E f \in [1..n -> Segments] : src = Concat(f)
    /\ located = EmptyModel
    /\ lpc = "ready"
    /\ ExtractOff
    /\ DecodeOff
    /\ RunOff
    /\ ScanOff
    /\ RecordOff
    /\ EvalOff
    /\ BuildOff
    /\ CrawlOff
    /\ SearchOff

\* locateAndDecode(sourceText, containerId)
Locate ==
    /\ lpc = "ready"
    /\ located' = extractContainerModelFromRawJs_(src, CID)
    /\ lpc' = "done"
    /\ UNCHANGED <<src, extractVars, decodeVars, runVars, scanVars, recordVars, evalVars, buildVars, crawlVars, searchVars>>

LocateNext == Locate

SpecLocate == LocateInit /\ [][LocateNext]_vars

\* ------------------------------------------------------------- the sheets
Sheet(rows) == [exists |-> TRUE, rows |-> rows]

TagHeaders ==
    <<"containerId", "id", "name", "type", "vendor", "priority", "triggers",
      "consent", "firingOption", "setupTags", "raw">>
TriggerHeaders ==
    <<"containerId", "id", "name", "type", "eventName", "conditionsSummary",
      "exceptions", "raw">>
VariableHeaders ==
    <<"containerId", "id", "name", "type", "defaultValue", "dataLayerPath",
      "detailsSummary", "raw">>
VendorHeaders == <<"containerId", "vendor", "type", "id", "extra">>

\* the length of each header
HeaderWidth ==
    [containerId |-> 11, id |-> 2, name |-> 4, type |-> 4, vendor |-> 6,
     priority |-> 8, triggers |-> 8, consent |-> 7, firingOption |-> 12,
     setupTags |-> 9, raw |-> 3, eventName |-> 9, conditionsSummary |-> 17,
     exceptions |-> 10, defaultValue |-> 12, dataLayerPath |-> 13,
     detailsSummary |-> 14, extra |-> 5]

\* the rows writeGtmTable_ sets: the headers, then one row per row object
RowsOf(headers, rows) ==
    <<[i \in 1..Len(headers) |-> Lit(headers[i], HeaderWidth[headers[i]])]>>
        \o [r \in 1..Len(rows) |->
              [i \in 1..Len(headers) |->
                  IF headers[i] \in DOMAIN rows[r] /\ ~IsNullish(rows[r][headers[i]])
                  THEN ToStr(rows[r][headers[i]]) ELSE <<>>]]

\* the sheets after writeGtmTable_(sheetName, headers, rows)
writeGtmTable_(sheets, sheetName, headers, rows) ==
    [sheets EXCEPT ![sheetName] = Sheet(RowsOf(headers, rows))]

\* a faulty clear that inserts the output sheets that are missing
ClearedSheetsInserting(sheets) == [n \in OutputSheets |-> Sheet(<<>>)]

\* the sheets after the forEach of clearGtmOutputSheets
ClearedSheets(sheets) ==
    [n \in OutputSheets |-> IF sheets[n].exists THEN Sheet(<<>>) ELSE sheets[n]]

\* the GTM_DEBUG sheet: its rows 'Container ID' and 'JS Length'
createDebugSheet_(rawJs, containerId) ==
    Sheet(<<containerId, NumStr(StrLength(rawJs)) \o Lit(" characters", 11)>>)

\* the GTM_RAW_DATA sheet: the sheet is inserted or cleared first; the rows,
\* here the container id and the four totals, are set at the end; reading
\* the arrays of rawData throws when rawData is undefined or holds no array
createRawDataPreviewSheet_(rawData, containerId) ==
    IF \/ IsNullish(rawData)
       \/ \E f \in {"tags", "predicates", "rules", "macros"} :
             ~IsArray(Get(rawData, f))
    THEN [thrown |-> TRUE, sheet |-> Sheet(<<>>),
          message |-> Lit("Cannot read properties of undefined (reading 'tags')", 52)]
    ELSE [thrown |-> FALSE,
          sheet |-> Sheet(<<Lit("Container ID: ", 14) \o containerId,
                            NumStr(Length(Get(rawData, "tags"))),
                            NumStr(Length(Get(rawData, "predicates"))),
                            NumStr(Length(Get(rawData, "rules"))),
                            NumStr(Length(Get(rawData, "macros")))>>),
          message |-> <<>>]

\* --------------------------------------------------------------- the run
Space == Chr(" ")

\* s.trim()
RECURSIVE TrimStart(_)
TrimStart(s) ==
    IF s # <<>> /\ Head(s) = Space THEN TrimStart(Tail(s)) ELSE s

RECURSIVE TrimEnd(_)
TrimEnd(s) ==
    IF s # <<>> /\ s[Len(s)] = Space THEN TrimEnd(SubSeq(s, 1, Len(s) - 1)) ELSE s

Trim(s) == TrimEnd(TrimStart(s))

\* the sheets setupGtmInspectorSheets leaves: GTM_CONFIG and GTM_README exist
ConfigAfterSetup(cfg) == IF cfg.exists THEN cfg ELSE [exists |-> TRUE, a2 |-> <<>>]

getGtmContainerId_(cfg) == IF ~cfg.exists THEN <<>> ELSE Trim(cfg.a2)

\* what UrlFetchApp.fetch gives: a response with a code and a text, or an
\* exception with a message
Response(code, body) == [kind |-> "response", code |-> code, text |-> body, message |-> <<>>]
FetchException(msg) == [kind |-> "exception", code |-> 0, text |-> <<>>, message |-> msg]

Raise(msg) == [thrown |-> TRUE, value |-> msg]

\* a faulty test that takes every identifier for a configured one
ContainerIdMissingNever(containerId) == FALSE

\* !containerId
ContainerIdMissing(containerId) == containerId = <<>>

\* a fetch that takes the text of any response
fetchGtmJs_AnyStatus(containerId, resp) ==
    IF resp.kind = "exception" THEN Raise(resp.message) ELSE Ok(resp.text)

fetchGtmJs_(containerId, resp) ==
    IF resp.kind = "exception" THEN Raise(resp.message)
    ELSE IF resp.code # 200
    THEN Raise(Lit("Failed to fetch GTM container ", 30) \o containerId
                  \o Lit(" (HTTP ", 7) \o NumStr(resp.code)
                  \o Lit("). Verify the container ID is correct and published.", 52))
    ELSE Ok(resp.text)

Alert(title, message) == [title |-> title, message |-> message]

ConfigurationRequired ==
    Alert("Configuration Required",
          Lit("Please enter a GTM container ID in the GTM_CONFIG sheet (cell A2).", 66)
              \o Lit("\n\nExample: GTM-XXXXXXX", 22))

FetchingContainer(containerId) ==
    Alert("Fetching Container",
          Lit("Inspecting GTM container: ", 26) \o containerId
              \o Lit("\n\nThis may take 30-60 seconds...", 32))

InspectionComplete(containerId, model, vendors) ==
    Alert("Inspection Complete",
          Lit("U+2705 Container Inspection Complete!\n\nContainer: ", 45) \o containerId
              \o Lit("\n\nTags: ", 8) \o NumStr(Len(model.tags))
              \o Lit("\nTriggers: ", 11) \o NumStr(Len(model.triggers))
              \o Lit("\nVariables: ", 12) \o NumStr(Len(model.variables))
              \o Lit("\nVendor Instances: ", 19) \o NumStr(Len(vendors))
              \o Lit("\n\nCheck the GTM_Tags, GTM_Triggers, GTM_Variables, and GTM_Vendors sheets.", 74))

InspectorError(message) ==
    Alert("GTM Inspector Error",
          message \o Lit("\n\nCheck the Execution log in Apps Script for details.", 53))

\* the state a handler leaves
After(cfg, tbl, ax, shown, steps, containerId, resp) ==
    [config |-> cfg, tables |-> tbl, aux |-> ax, alerts |-> shown,
     last |-> [op |-> "inspect", containerId |-> containerId, resp |-> resp,
               steps |-> steps]]

\* the run from the preview sheet on: the four tables and the last dialog
InspectWrite(cfg, tbl, ax, containerId, resp, model, vendors, preview) ==
    IF preview.thrown
    THEN After(cfg, tbl, [ax EXCEPT !.raw = preview.sheet],
               <<FetchingContainer(containerId), InspectorError(preview.message)>>,
               {"setup", "request", "fetch", "debug", "locate", "scan"},
               containerId, resp)
    ELSE After(cfg,
               writeGtmTable_(
                   writeGtmTable_(
                       writeGtmTable_(
                           writeGtmTable_(tbl, "GTM_Tags", TagHeaders, model.tags),
                           "GTM_Triggers", TriggerHeaders, model.triggers),
                       "GTM_Variables", VariableHeaders, model.variables),
                   "GTM_Vendors", VendorHeaders, vendors),
               [ax EXCEPT !.raw = preview.sheet],
               <<FetchingContainer(containerId),
                 InspectionComplete(containerId, model, vendors)>>,
               {"setup", "request", "fetch", "debug", "locate", "scan",
                "preview", "write"},
               containerId, resp)

\* ----------------------------------------------------------- run machine
\* the predicates and the rule of the full container
MemberPredicates == Member("predicates", Arr(<<PredEvent>>), "json", 44, FALSE, <<>>)
MemberRules ==
    Member("rules", Arr(<<Obj([add |-> Arr(<<Num(0)>>)])>>), "json", 22, FALSE, <<>>)
LitFull ==
    Braced(<<Pad(1000), MemberTagsTwo, MemberPredicates, MemberRules, MemberMacros>>)

\* source texts a fetch may return
RunTexts ==
    {<<LeadGtmDouble(CID)>> \o LitSmall,
     <<LeadVarData>> \o LitFull,
     <<LeadGtmSingle(CID2)>> \o LitLarge,
     <<LeadVarData>> \o LitNull,
     <<Text(40, <<MeasureId, PixelId>>)>>,
     <<Text(12, <<>>)>>}

ErrorPage == <<Text(30, <<>>)>>

Responses ==
    {Response(200, t) : t \in RunTexts}
        \cup {Response(c, ErrorPage) : c \in {204, 404, 500}}
        \cup {Response(404, <<LeadVarData>> \o LitFull)}
        \cup {FetchException(Lit("DNS error", 9))}

\* what a user may type into GTM_CONFIG!A2
ContainerIds == {<<>>, CID, CID2, <<Space>> \o CID \o <<Space>>}

\* a spreadsheet the inspector has not been used in
RunInit ==
    /\ RunOff
    /\ ExtractOff
    /\ DecodeOff
    /\ LocateOff
    /\ ScanOff
    /\ RecordOff
    /\ EvalOff
    /\ BuildOff
    /\ CrawlOff
    /\ SearchOff

\* the menu item "Inspect Container": inspectGtmContainer(), the whole
\* handler, with the fetch answering resp; each intermediate value of the
\* handler is bound once, in the order the handler computes it
inspectGtmContainer ==
    \E resp \in Responses :
    \E cfg \in {ConfigAfterSetup(config)} :
    \E containerId \in {getGtmContainerId_(cfg)} :
    \E fetched \in {fetchGtmJs_(containerId, resp)} :
    \E rawJs \in {IF fetched.thrown THEN <<>> ELSE fetched.value} :
    \E model \in {extractContainerModelFromRawJs_(rawJs, containerId)} :
    \E vendors \in {analyzeVendorsFromRawJs_(rawJs, containerId, model.tags)} :
    \E preview \in {createRawDataPreviewSheet_(model.rawData, containerId)} :
    \E after \in
        {IF ContainerIdMissing(containerId)
         THEN After(cfg, tables, [aux EXCEPT !.readme = TRUE],
                    <<ConfigurationRequired>>, {"setup"}, containerId, NoResponse)
         ELSE IF fetched.thrown
         THEN After(cfg, tables, [aux EXCEPT !.readme = TRUE],
                    <<FetchingContainer(containerId), InspectorError(fetched.value)>>,
                    {"setup", "request"}, containerId, resp)
         ELSE InspectWrite(cfg, tables,
                           [aux EXCEPT !.readme = TRUE,
                                       !.debug = createDebugSheet_(rawJs, containerId)],
                           containerId, resp, model, vendors, preview)} :
        /\ config' = after.config
        /\ tables' = after.tables
        /\ aux' = after.aux
        /\ alerts' = after.alerts
        /\ last' = after.last
        /\ UNCHANGED <<extractVars, decodeVars, locateVars, scanVars, recordVars, evalVars, buildVars, crawlVars, searchVars>>

\* the user edits cell A2 of GTM_CONFIG
SetContainerId ==
    \E id \in ContainerIds :
        /\ config.exists
        /\ config' = [config EXCEPT !.a2 = id]
        /\ alerts' = <<>>
        /\ last' = [NoRun EXCEPT !.op = "edit"]
        /\ UNCHANGED <<tables, aux, extractVars, decodeVars, locateVars, scanVars, recordVars, evalVars, buildVars, crawlVars, searchVars>>

\* the menu item "Clear Output Sheets"
clearGtmOutputSheets ==
    /\ tables' = ClearedSheets(tables)
    /\ alerts' = <<Alert("Output Sheets Cleared",
                         Lit("GTM_Tags, GTM_Triggers, GTM_Variables, and GTM_Vendors have been cleared.", 73))>>
    /\ last' = [NoRun EXCEPT !.op = "clear"]
    /\ UNCHANGED <<config, aux, extractVars, decodeVars, locateVars, scanVars, recordVars, evalVars, buildVars, crawlVars, searchVars>>

RunNext ==
    \/ inspectGtmContainer
    \/ SetContainerId
    \/ clearGtmOutputSheets

SpecRun == RunInit /\ [][RunNext]_vars

\* ------------------------------------------------------ vendor scan machine
\* identifier literals a source text can hold; the Meta, LinkedIn and
\* Pinterest ids are the same digits under three different patterns
MeasureIdB == [pat |-> "ga4", id |-> "G-ZYXWVUT9", len |-> 10]
AdsId == [pat |-> "aw", id |-> "AW-123456", len |-> 9]
FloodlightId == [pat |-> "dc", id |-> "DC-123456", len |-> 9]
TikTokId == [pat |-> "tt", id |-> "ABCDEFGHIJ0123456789", len |-> 20]
PartnerId == [pat |-> "li", id |-> "123456789012345", len |-> 15]
PinterestId == [pat |-> "pin", id |-> "123456789012345", len |-> 15]

Occurrences ==
    {MeasureId, MeasureIdB, UaId, AdsId, FloodlightId, PixelId, TikTokId,
     PartnerId, PinterestId}

\* a text holding the occurrences f[1], f[2], ... in this order
ScanTextOf(f) == [i \in DOMAIN f |-> Text(f[i].len + 30, <<f[i]>>)]

ScanInit ==
    /\ \E n \in 0..MaxOccurrences :
          \E f \in [1..n -> Occurrences] : scanText = ScanTextOf(f)
    /\ scanHits = <<>>
    /\ spc = "ready"
    /\ ExtractOff
    /\ DecodeOff
    /\ LocateOff
    /\ RunOff
    /\ RecordOff
    /\ EvalOff
    /\ BuildOff
    /\ CrawlOff
    /\ SearchOff

\* one vendor scan over the source text
ScanVendors ==
    /\ spc = "ready"
    /\ scanHits' = analyzeVendorsFromRawJs_(scanText, CID, Arr(<<>>))
    /\ spc' = "done"
    /\ UNCHANGED <<scanText, extractVars, decodeVars, locateVars, runVars, recordVars, evalVars, buildVars, crawlVars, searchVars>>

ScanNext == ScanVendors

SpecScan == ScanInit /\ [][ScanNext]_vars

\* --------------------------------------------------------- record machine
\* a property that the raw record does not carry
Absent == [t |-> "absent", v |-> 0]

\* the object o with property name set to val, when there is one
With(o, name, val) ==
    IF val = Absent THEN o ELSE Obj((name :> val) @@ o.v)

S_map == Lit("map", 3)
S_adStorage == Lit("ad_storage", 10)
S_analyticsStorage == Lit("analytics_storage", 17)

\* raw tags ---------------------------------------------------------------
TagFunctions ==
    {Str(S__html), Str(S__googtag), Str(S__ua), Str(S__img),
     Str(Chars(<<"_","_","g","a","a","w","e">>)),
     Str(Chars(<<"_","_","z","z">>)), Absent}

ConsentTokens == {Str(S_adStorage), Str(S_analyticsStorage), Num(1)}

ConsentValues ==
    {Absent, Null, Str(S_adStorage), Arr(<<>>)}
        \cup {Arr(<<Str(h)>> \o f) :
                 h \in {S_list, S_map}, f \in SeqsUpTo(ConsentTokens, MaxEntries)}

FlagValues == {Absent, Bool(TRUE), Bool(FALSE), Num(1), Str(Lit("true", 4))}

SetupEntry(id) == Arr(<<Str(S_tag), id, Num(0)>>)

SetupEntries ==
    {SetupEntry(Num(631)), SetupEntry(Num(7)), SetupEntry(Str(Lit("631", 3))),
     Str(S_tag), Arr(<<Str(Lit("gat", 3)), Num(5)>>), Null}

SetupValues ==
    {Absent, Null, Str(S_list)}
        \cup {Arr(h \o f) :
                 h \in {<<Str(S_list)>>, <<Str(S_map)>>, <<>>},
                 f \in SeqsUpTo(SetupEntries, MaxEntries)}

HtmlPixel == Str(Lit("<script>", 8) \o S_fbq \o Lit("'init','1');</script>", 22))
HtmlPlain == Str(Lit("<b>hello</b>", 12))

TrackingIds == {Absent, Str(S_Gdash \o Lit("ABCDEFG1", 8)),
                Str(Lit("UA-123456-1", 11)), Num(12345)}
MeasurementIds == {Absent, Str(S_Gdash \o Lit("ABCDEFG1", 8))}
HtmlValues == {Absent, HtmlPixel, HtmlPlain, Num(5)}

RawTag(function, html, trackingId, measurementId, consent, event, load, setup) ==
    With(With(With(With(With(With(With(With(EmptyObject,
        "function", function), "vtp_html", html),
        "vtp_trackingId", trackingId), "vtp_measurementId", measurementId),
        "consent", consent), "once_per_event", event),
        "once_per_load", load), "setup_tags", setup)

\* tags that vary the consent, the two flags, the setup tags, or the
\* parameters the type and the vendor are read from, against plain others
RawTags ==
    {RawTag(f, HtmlPixel, Absent, Absent, c, Absent, Absent, Absent) :
        f \in TagFunctions, c \in ConsentValues}
    \cup {RawTag(Str(S__html), HtmlPixel, Absent, Absent, Absent, e, l, Absent) :
        e \in FlagValues, l \in FlagValues}
    \cup {RawTag(Str(S__html), HtmlPixel, Absent, Absent, Absent, Absent, Absent, u) :
        u \in SetupValues}
    \cup {RawTag(f, h, t, m, Absent, Absent, Absent, Absent) :
        f \in TagFunctions, h \in HtmlValues, t \in TrackingIds,
        m \in MeasurementIds}

\* raw macros -------------------------------------------------------------
MacroFunctions ==
    {Str(S__v), Str(S__k), Str(S__u), Str(S__jsm),
     Str(Chars(<<"_","_","z","z">>)), Absent}

PathValues == {Absent, Str(Lit("ecommerce.value", 15)), Str(<<>>)}

RawMacro(function, name, dataLayerVariable) ==
    With(With(With(EmptyObject, "function", function), "vtp_name", name),
         "vtp_dataLayerVariable", dataLayerVariable)

RawMacros ==
    {RawMacro(f, n, d) :
        f \in MacroFunctions, n \in PathValues,
        d \in {Absent, Str(Lit("user.id", 7))}}

\* raw rules --------------------------------------------------------------
S_equals == Chars(<<"e","q","u","a","l","s">>)
S_cn == Chars(<<"c","n">>)
S_macro == Chars(<<"m","a","c","r","o">>)
S_http == Chars(<<"h","t","t","p">>)

Macro(n) == Arr(<<Str(S_macro), n>>)
Predicate(op, arg0, operand) == Arr(<<Str(op), arg0, operand>>)

\* the predicates of the document: tests of the event variable with operands
\* that pass (0, 1, 2) and operands that do not, tests of another variable,
\* another operator, and a missing entry
RulePredicates ==
    Arr(<<Predicate(S_equals, Macro(Num(0)), Str(Chars(<<"b","u","y">>))),
          Predicate(S_cn, Macro(Num(0)), Str(Chars(<<"a","d","d">>))),
          Predicate(S_equals, Macro(Num(0)),
                    Str(Chars(<<"x">>) \o Lit("y", EventNameCap - 2))),
          Predicate(S_equals, Macro(Num(0)),
                    Str(Chars(<<"x">>) \o Lit("y", EventNameCap - 1))),
          Predicate(S_equals, Macro(Num(0)), Str(<<>>)),
          Predicate(S_equals, Macro(Num(0)),
                    Str(S_http \o Lit("s://example.com/thanks", 22))),
          Predicate(S_cn, Macro(Num(0)), Str(Chars(<<"/","c","a","r","t">>))),
          Predicate(S_equals, Macro(Num(0)), Num(5)),
          Predicate(S_equals, Macro(Num(1)), Str(Chars(<<"p","a","y">>))),
          Predicate(S_equals, Macro(Str(Chars(<<"0">>))),
                    Str(Chars(<<"p","a","y">>))),
          Predicate(Chars(<<"r","e","g","e","x">>), Macro(Num(0)),
                    Str(Chars(<<"p","a","y">>))),
          Null>>)

PredicateIds == {Num(i) : i \in -1..Len(RulePredicates.v)}

RawRules ==
    {Obj([add |-> Arr(a)]) : a \in SeqsUpTo(PredicateIds, MaxEntries)}
        \cup {Obj([add |-> Arr(<<Num(8)>>), unless |-> Arr(<<Num(0)>>)]),
              Obj([unless |-> Arr(<<Num(0)>>)]),
              Obj([add |-> Num(0)]),
              EmptyObject}

\* named tags -------------------------------------------------------------
NameValues == {Absent, Str(Lit("Checkout", 8)), Str(<<>>), Num(0)}

S_name == Chars(<<"n","a","m","e">>)

\* metadata of a tag: the usual ["map", "name", value], 'name' as the last
\* element, an empty value, an empty value before a second pair, and a
\* value that is no array
MetadataValues ==
    {Absent,
     Arr(<<Str(S_map), Str(S_name), Str(Lit("Purchase", 8))>>),
     Arr(<<Str(S_map), Str(S_name)>>),
     Arr(<<Str(S_name), Str(<<>>)>>),
     Arr(<<Str(S_name), Str(<<>>), Str(S_name), Str(Lit("Second", 6))>>),
     Str(S_name)}

\* data.entities || {}: no table, a name at position 0, an empty entry, a
\* name at position 1 only, an array of entries, an entry that is no array,
\* an entry with an empty name, and a table that is a string
EntityTables ==
    {EmptyObject,
     Obj("0" :> Arr(<<Str(Lit("Entity", 6))>>)),
     Obj("0" :> Arr(<<>>)),
     Obj("1" :> Arr(<<Str(Lit("Entity", 6))>>)),
     Arr(<<Arr(<<Str(Lit("First", 5)), Num(1)>>)>>),
     Obj("0" :> Str(Lit("Entity", 6))),
     Obj("0" :> Arr(<<Str(<<>>)>>)),
     Str(Lit("ab", 2))}

VtpValue(present, chars, n) == IF present THEN Str(Lit(chars, n)) ELSE Absent

NamedTag(name, metadata, present) ==
    With(With(With(With(With(With(With(With(With(With(
        With(EmptyObject, "function", Str(S__html)),
        "name", name), "metadata", metadata),
        "vtp_name", VtpValue(present[1], "vtp name", 8)),
        "vtp_tagId", VtpValue(present[2], "DC-1", 4)),
        "vtp_activityTag", VtpValue(present[3], "act", 3)),
        "vtp_groupTag", VtpValue(present[4], "grp", 3)),
        "vtp_trackingId", VtpValue(present[5], "UA-1", 4)),
        "vtp_measurementId", VtpValue(present[6], "G-1", 3)),
        "vtp_conversionId", VtpValue(present[7], "AW-1", 4)),
        "vtp_conversionLabel", VtpValue(present[8], "label", 5))

NoVtp == [k \in 1..8 |-> FALSE]

\* tags that vary the name field, the metadata and the entity table, with
\* and without a vtp parameter, and tags that vary the vtp parameters alone
NamedTags ==
    [kind : {"named"},
     value : {NamedTag(n, m, [NoVtp EXCEPT ![8] = v]) :
                 n \in NameValues, m \in MetadataValues, v \in BOOLEAN},
     idx : {0, 1},
     entities : EntityTables]
        \cup [kind : {"named"},
              value : {NamedTag(Absent, Absent, f) : f \in [1..8 -> BOOLEAN]},
              idx : {0},
              entities : {EmptyObject}]

RecordInit ==
    /\ rawItem \in [kind : {"tag"}, value : RawTags]
                    \cup NamedTags
                    \cup [kind : {"macro"}, value : RawMacros]
                    \cup [kind : {"rule"}, value : RawRules]
    /\ decodedItem = Threw
    /\ ipc = "ready"
    /\ ExtractOff
    /\ DecodeOff
    /\ LocateOff
    /\ RunOff
    /\ ScanOff
    /\ EvalOff
    /\ BuildOff
    /\ CrawlOff
    /\ SearchOff

\* data.tags.map(...) reaches the raw tag
DecodeTag ==
    /\ ipc = "ready"
    /\ rawItem.kind = "tag"
    /\ decodedItem' = parseGtmTag_(rawItem.value, 0, CID, EmptyObject)
    /\ ipc' = "done"
    /\ UNCHANGED <<rawItem, extractVars, decodeVars, locateVars, runVars,
                   scanVars, evalVars, buildVars, crawlVars, searchVars>>

\* data.tags.map(...) reaches the raw tag at its position, in a document
\* with an entity table
DecodeNamedTag ==
    /\ ipc = "ready"
    /\ rawItem.kind = "named"
    /\ decodedItem' = parseGtmTag_(rawItem.value, rawItem.idx, CID,
                                   rawItem.entities)
    /\ ipc' = "done"
    /\ UNCHANGED <<rawItem, extractVars, decodeVars, locateVars, runVars,
                   scanVars, evalVars, buildVars, crawlVars, searchVars>>

\* data.macros.map(...) reaches the raw macro
DecodeMacro ==
    /\ ipc = "ready"
    /\ rawItem.kind = "macro"
    /\ decodedItem' = parseGtmVariable_(rawItem.value, 0, CID, EmptyObject)
    /\ ipc' = "done"
    /\ UNCHANGED <<rawItem, extractVars, decodeVars, locateVars, runVars,
                   scanVars, evalVars, buildVars, crawlVars, searchVars>>

\* parseGtmTriggers_ reaches the raw rule, the only rule of the document
DecodeRule ==
    /\ ipc = "ready"
    /\ rawItem.kind = "rule"
    /\ decodedItem' = TriggerOf(rawItem.value, 0, RulePredicates, CID)
    /\ ipc' = "done"
    /\ UNCHANGED <<rawItem, extractVars, decodeVars, locateVars, runVars,
                   scanVars, evalVars, buildVars, crawlVars, searchVars>>

RecordNext ==
    \/ DecodeTag
    \/ DecodeNamedTag
    \/ DecodeMacro
    \/ DecodeRule

SpecRecord == RecordInit /\ [][RecordNext]_vars

\* ------------------------------------------------- the object literal parser
\* parseJavaScriptObject of the page extractor (src/unnamed/part_005)
BlockComment == [c |-> "/*c*/", w |-> 5]

\* cleaned.replace(/'/g, '"'): single-quoted strings become JSON strings, a
\* JSON string that holds an apostrophe is cut in two
ReplaceQuotes(tok) ==
    IF tok.c # "member" THEN tok
    ELSE IF tok.syn = "single" THEN [tok EXCEPT !.syn = "json"]
    ELSE IF tok.syn = "apostrophe" THEN [tok EXCEPT !.syn = "bad"]
    ELSE tok

\* cleaned.replace(/,(\s*[}\]])/g, '$1')
StripTrailingComma(tok) ==
    IF tok.c = "member" /\ tok.syn = "trailing"
    THEN [tok EXCEPT !.syn = "json", !.w = @ - 1]
    ELSE tok

\* cleaned.replace(/\/\*[\s\S]*?\*\//g, ''): also inside a string
StripBlockComments(tok) ==
    IF tok.c # "member" THEN tok
    ELSE IF tok.syn = "comment" THEN [tok EXCEPT !.syn = "json", !.w = @ - 5]
    ELSE IF tok.syn = "blockInString"
    THEN [tok EXCEPT !.syn = "json", !.w = @ - 5,
                     !.val = Str(SelectSeq(tok.val.v,
                                           LAMBDA ch : ch # BlockComment))]
    ELSE tok

\* cleaned.replace(/\/\/.*/g, ''): a string that holds // loses its end
StripLineComments(tok) ==
    IF tok.c = "member" /\ tok.syn = "url" THEN [tok EXCEPT !.syn = "bad"]
    ELSE tok

CleanedText(jsCode) ==
    [i \in 1..Len(jsCode) |->
        StripLineComments(StripBlockComments(StripTrailingComma(
            ReplaceQuotes(jsCode[i]))))]

CouldNotParse == Lit("Could not parse JavaScript object: ", 35)

\* the outcome of a call with the parsers it ran, in order
Tried(outcome, tiers) ==
    [thrown |-> outcome.thrown, value |-> outcome.value, tiers |-> tiers]

\* a faulty parser that evaluates the text before it tries the cleaned one
parseJavaScriptObject_EvalFirst(jsCode) ==
    IF ~JsonParse(jsCode).thrown
    THEN Tried(JsonParse(jsCode), <<"strict">>)
    ELSE IF ~EvalLiteral(jsCode).thrown
    THEN Tried(EvalLiteral(jsCode), <<"strict", "eval">>)
    ELSE IF ~JsonParse(CleanedText(jsCode)).thrown
    THEN Tried(JsonParse(CleanedText(jsCode)), <<"strict", "eval", "cleaned">>)
    ELSE Tried(Raise(CouldNotParse), <<"strict", "eval", "cleaned">>)

parseJavaScriptObject(jsCode) ==
    IF ~JsonParse(jsCode).thrown
    THEN Tried(JsonParse(jsCode), <<"strict">>)
    ELSE IF ~JsonParse(CleanedText(jsCode)).thrown
    THEN Tried(JsonParse(CleanedText(jsCode)), <<"strict", "cleaned">>)
    ELSE IF ~EvalLiteral(jsCode).thrown
    THEN Tried(EvalLiteral(jsCode), <<"strict", "cleaned", "eval">>)
    ELSE Tried(Raise(CouldNotParse), <<"strict", "cleaned", "eval">>)

\* --------------------------------------------------- literal parser machine
\* members of the literals handed to the parser, one of each syntax class
LiteralMembers ==
    {Member("a", Num(1), "json", 6, FALSE, <<>>),
     Member("b", Str(Lit("v", 1)), "single", 8, FALSE, <<>>),
     Member("c", Num(1), "trailing", 7, FALSE, <<>>),
     Member("d", Num(1), "comment", 12, FALSE, <<>>),
     Member("e", Num(1), "unquoted", 4, FALSE, <<>>),
     Member("f", Str(Lit("it's", 4)), "apostrophe", 11, FALSE, <<>>),
     Member("g", Str(Lit("http://x", 8)), "url", 15, FALSE, <<>>),
     Member("h", Str(<<Chr("a"), BlockComment, Chr("b")>>), "blockInString",
            14, FALSE, <<>>),
     Member("i", Num(1), "bad", 5, FALSE, <<>>)}

EvalInit ==
    /\ \E n \in 0..MaxMembers :
          \E f \in [1..n -> LiteralMembers] : objText = Braced(f)
    /\ parsedOut = [thrown |-> TRUE, value |-> <<>>, tiers |-> <<>>]
    /\ epc = "ready"
    /\ ExtractOff
    /\ DecodeOff
    /\ LocateOff
    /\ RunOff
    /\ ScanOff
    /\ RecordOff
    /\ BuildOff
    /\ CrawlOff
    /\ SearchOff

\* a caller hands the text of an object literal to the parser
ParseObject ==
    /\ epc = "ready"
    /\ parsedOut' = parseJavaScriptObject(objText)
    /\ epc' = "done"
    /\ UNCHANGED <<objText, extractVars, decodeVars, locateVars, runVars,
                   scanVars, recordVars, buildVars, crawlVars, searchVars>>

EvalNext == ParseObject

SpecEval == EvalInit /\ [][EvalNext]_vars

\* ------------------------------------------------------------ the crawler
\* Crawler.js (src/unnamed/part_004) over the PAGES_INVENTORY sheet.  A URL
\* is a number, 1 the start URL.  A row holds the cells URL, Depth and Crawl
\* Status; the Depth cell holds a value, the other two a number and a string.

\* bounds of the crawler machine
MaxUrls == 4
MaxLinks == 2
MaxPagesBound == 3
MaxDepthBound == 2

Urls == 1..MaxUrls
StartUrl == 1

\* a cell no value was written to
Blank == Str(<<>>)

\* the two files that define a global getSheetDataAsObjects; the project
\* runs with the definition of the file that is loaded last
LoadOrders == {"SheetUtils", "GtmInspector"}

\* Number(x) of a cell: the empty string converts to 0
ToNumber(x) == IF x.t = "num" THEN x.v ELSE 0

\* buildRowFromObject: rowData[header] || ''
CellOf(x) == IF Truthy(x) THEN x ELSE Blank

\* what a cell holds after a value is set: a string of digits is stored as
\* the number it spells (here the string "1", the only one the crawler sets)
Entered(x) == IF x = Str(NumStr(1)) THEN Num(1) ELSE x

\* depth + 1: a number is incremented, to a string "1" is appended
PlusOne(d) == IF d.t = "num" THEN Num(d.v + 1) ELSE Str(d.v \o NumStr(1))

\* upsertRow: the index of the first row whose URL cell is url, 0 if none
RowIndex(inv, url) ==
    IF \E i \in 1..Len(inv) : inv[i].url = url
    THEN CHOOSE i \in 1..Len(inv) :
            /\ inv[i].url = url
            /\ \A j \in 1..(i - 1) : inv[j].url # url
    ELSE 0

\* queuePage(url, depth, ...): upsertRow with a full row, status 'Pending';
\* an existing row is overwritten cell by cell, a new row is appended
queuePage(inv, url, depth) ==
    IF RowIndex(inv, url) # 0
    THEN [inv EXCEPT ![RowIndex(inv, url)] =
             [url |-> url, depth |-> Entered(depth), status |-> "Pending"]]
    ELSE Append(inv, [url |-> url, depth |-> Entered(CellOf(depth)),
                      status |-> "Pending"])

\* updatePageStatus(url, status, ...): upsertRow with the status cells only
updatePageStatus(inv, url, status) ==
    IF RowIndex(inv, url) # 0
    THEN [inv EXCEPT ![RowIndex(inv, url)].status = status]
    ELSE Append(inv, [url |-> url, depth |-> Blank, status |-> status])

\* getRowsWhere('PAGES_INVENTORY', 'Crawl Status', value): it calls
\* getSheetDataAsObjects with the sheet name; the definition of
\* GtmInspector.js takes a sheet and throws on a name
getRowsWhere(inv, status, order) ==
    IF order = "GtmInspector" THEN Threw
    ELSE Ok(SelectSeq(inv, LAMBDA r : r.status = status))

\* a pick that takes the pending row written last
getNextPendingPage_Last(pages) ==
    IF pages = <<>> THEN [found |-> FALSE, url |-> 0, depth |-> Blank]
    ELSE [found |-> TRUE, url |-> pages[Len(pages)].url,
          depth |-> pages[Len(pages)].depth]

\* getNextPendingPage, from the pending rows: a stable sort by Depth, then
\* the first row
getNextPendingPage(pages) ==
    IF pages = <<>> THEN [found |-> FALSE, url |-> 0, depth |-> Blank]
    ELSE LET i == CHOOSE k \in 1..Len(pages) :
                     /\ \A j \in 1..Len(pages) :
                            ToNumber(pages[k].depth) <= ToNumber(pages[j].depth)
                     /\ \A j \in 1..(k - 1) :
                            ToNumber(pages[j].depth) > ToNumber(pages[k].depth)
         IN [found |-> TRUE, url |-> pages[i].url, depth |-> pages[i].depth]

\* the test of runCrawl that ends the loop one page late
ReachedMaxPages_Late(currentTotal, cfg) == currentTotal > cfg.maxPages

\* runCrawl: currentTotal >= config.maxPages
ReachedMaxPages(currentTotal, cfg) == currentTotal >= cfg.maxPages

\* an inventory test that never finds the page
isPageInInventory_Never(inv, url) == FALSE

\* isPageInInventory(url), under the definition of SheetUtils.js
isPageInInventory(inv, url) == \E i \in 1..Len(inv) : inv[i].url = url

\* extractAndQueueLinks: each link that is not in the inventory is queued
RECURSIVE extractAndQueueLinks(_, _, _)
extractAndQueueLinks(inv, links, depth) ==
    IF links = <<>> THEN inv
    ELSE extractAndQueueLinks(
             IF isPageInInventory(inv, Head(links)) THEN inv
             ELSE queuePage(inv, Head(links), depth),
             Tail(links), depth)

\* getCrawlStatistics().pending
PendingCount(inv) == Cardinality({i \in 1..Len(inv) : inv[i].status = "Pending"})

\* getTotalFetchedPages()
FetchedCount(inv) == Cardinality({i \in 1..Len(inv) : inv[i].status = "Fetched"})

\* initializeCrawl(config): a sheet without data rows gets the start URL
initializeCrawl(inv) ==
    IF inv = <<>>
    THEN [inventory |-> queuePage(inv, StartUrl, Num(0)), isComplete |-> FALSE]
    ELSE [inventory |-> inv, isComplete |-> PendingCount(inv) = 0]

\* the links extractLinks returns for a page: a Set, so no link twice
LinkLists ==
    {l \in UNION {[1..n -> Urls] : n \in 0..MaxLinks} :
        \A i, j \in 1..Len(l) : i # j => l[i] # l[j]}

\* what fetchPage returns: success with the links of the page, or a failure
FetchResults ==
    {[success |-> TRUE, links |-> l] : l \in LinkLists}
        \cup {[success |-> FALSE, links |-> <<>>]}

Configs == [maxPages : 1..MaxPagesBound, maxDepth : 1..MaxDepthBound]

NoPick == [act |-> "none", url |-> 0]

\* --------------------------------------------------------- crawler machine
\* a spreadsheet after "Setup Sheet Structure": PAGES_INVENTORY has its
\* header row only, DETAILS holds a valid configuration
CrawlInit ==
    /\ loaded \in LoadOrders
    /\ inventory = <<>>
    /\ crawlConfig \in Configs
    /\ cpc = "idle"
    /\ picked = NoPick
    /\ crawlAlert = ""
    /\ ExtractOff
    /\ DecodeOff
    /\ LocateOff
    /\ RunOff
    /\ ScanOff
    /\ RecordOff
    /\ EvalOff
    /\ SearchOff

\* the user edits Max Pages or Max Depth in DETAILS between two runs
EditConfig ==
    \E cfg \in Configs :
        /\ cpc = "idle"
        /\ cfg # crawlConfig
        /\ crawlConfig' = cfg
        /\ picked' = NoPick
        /\ UNCHANGED <<inventory, cpc, crawlAlert, buildVars, extractVars,
                       decodeVars, locateVars, runVars, scanVars, recordVars,
                       evalVars, searchVars>>

\* the end of runCrawl after its loop: the dialog from getCrawlStatistics
Finish(inv) ==
    /\ inventory' = inv
    /\ cpc' = "idle"
    /\ crawlAlert' = IF PendingCount(inv) = 0 THEN "Crawl Complete"
                     ELSE "Crawl Paused"

\* the menu item "Run Crawl", up to its main loop
runCrawl ==
    \E state \in {initializeCrawl(inventory)} :
        /\ cpc = "idle"
        /\ inventory' = state.inventory
        /\ cpc' = IF state.isComplete THEN "idle" ELSE "loop"
        /\ crawlAlert' = IF state.isComplete THEN "Crawl Complete"
                         ELSE "Starting Crawl"
        /\ picked' = NoPick
        /\ UNCHANGED <<crawlConfig, buildVars, extractVars, decodeVars,
                       locateVars, runVars, scanVars, recordVars, evalVars,
                   searchVars>>

\* an iteration that finds the time limit passed
TimeLimit ==
    /\ cpc = "loop"
    /\ Finish(inventory)
    /\ picked' = NoPick
    /\ UNCHANGED <<crawlConfig, buildVars, extractVars, decodeVars,
                   locateVars, runVars, scanVars, recordVars, evalVars,
                   searchVars>>

\* an iteration within the time limit: the pick, the two limits, the fetch
CrawlPage ==
    \E result \in FetchResults :
    \E pending \in {getRowsWhere(inventory, "Pending", loaded)} :
    \E nextPage \in {IF pending.thrown THEN getNextPendingPage(<<>>)
                     ELSE getNextPendingPage(pending.value)} :
    \E marked \in {updatePageStatus(inventory, nextPage.url,
                       IF result.success THEN "Fetched" ELSE "Error")} :
        /\ cpc = "loop"
        /\ IF pending.thrown
           THEN /\ inventory' = inventory
                /\ cpc' = "idle"
                /\ crawlAlert' = "Crawl Error"
                /\ picked' = NoPick
           ELSE IF ~nextPage.found
           THEN /\ Finish(inventory)
                /\ picked' = NoPick
           ELSE IF ReachedMaxPages(FetchedCount(inventory), crawlConfig)
           THEN /\ Finish(inventory)
                /\ picked' = [act |-> "stop", url |-> nextPage.url]
           ELSE IF ToNumber(nextPage.depth) > crawlConfig.maxDepth
           THEN /\ inventory' = updatePageStatus(inventory, nextPage.url, "Skipped")
                /\ picked' = [act |-> "skip", url |-> nextPage.url]
                /\ UNCHANGED <<cpc, crawlAlert>>
           ELSE /\ inventory' =
                       IF result.success
                          /\ ToNumber(nextPage.depth) < crawlConfig.maxDepth
                       THEN extractAndQueueLinks(marked, result.links,
                                                 PlusOne(nextPage.depth))
                       ELSE marked
                /\ picked' = [act |-> "fetch", url |-> nextPage.url]
                /\ UNCHANGED <<cpc, crawlAlert>>
        /\ UNCHANGED <<crawlConfig, buildVars, extractVars, decodeVars,
                       locateVars, runVars, scanVars, recordVars, evalVars,
                   searchVars>>

CrawlNext ==
    \/ runCrawl
    \/ EditConfig
    \/ TimeLimit
    \/ CrawlPage

SpecCrawl == CrawlInit /\ [][CrawlNext]_vars

\* runs under one configuration: DETAILS is not edited between the runs
CrawlRuns ==
    \/ runCrawl
    \/ TimeLimit
    \/ CrawlPage

SpecCrawlFixed == CrawlInit /\ [][CrawlRuns]_vars

\* the user runs "Run Crawl" again whenever no run is in progress, and the
\* time limit of 5.5 minutes does not end every run before its first page:
\* an iteration within the limit happens again and again
FairCrawl == SpecCrawlFixed /\ WF_vars(runCrawl) /\ SF_vars(CrawlPage)

\* --------------------------------------------------------- summary machine
\* the row objects getSheetDataAsObjects(sheet) of GtmInspector.js returns
\* for a sheet object, or for null when the sheet is missing: one per row
\* below the header row
SheetObjects(sheet) ==
    IF ~sheet.exists THEN <<>>
    ELSE IF Len(sheet.rows) < 2 THEN <<>>
    ELSE Tail(sheet.rows)

\* getSheetDataAsObjects(ss.getSheetByName(name)) under the definition in
\* force.  The definition of SheetUtils.js hands its argument, here a sheet
\* object, to getSheetByName as a name: the call either raises an exception
\* or finds no sheet of that name, and then the result is []
SheetDataOutcomes(sheet, order) ==
    IF order = "GtmInspector" THEN {Ok(SheetObjects(sheet))}
    ELSE IF ~sheet.exists THEN {Ok(<<>>)}
    ELSE {Ok(<<>>),
          Raise(Lit("The parameters (SpreadsheetApp.Sheet) don't match the method signature for SpreadsheetApp.Spreadsheet.getSheetByName.", 115))}

\* the rows 'Container ID:' and 'Total Tags' to 'Detected Vendors' of the
\* report buildGtmSummarySheet_ writes
buildGtmSummarySheet_(containerId, tags, triggers, variables, vendors) ==
    Sheet(<<containerId, NumStr(Len(tags)), NumStr(Len(triggers)),
            NumStr(Len(variables)), NumStr(Len(vendors))>>)

NoContainerData ==
    Alert("No Container Data",
          Lit("Please run \"Inspect Container\" first to generate data.", 54))

NoDataFound ==
    Alert("No Data Found",
          Lit("No tags found. Please run \"Inspect Container\" first.", 52))

SummaryCreated ==
    Alert("Summary Created",
          Lit("GTM_SUMMARY sheet has been created with a presentable overview.", 64)
              \o Lit("\n\nThis sheet is formatted for stakeholder presentations.", 56))

SummaryError(message) == Alert("Summary Error", message)

\* the menu item "Export Summary": exportGtmSummary(), the whole handler
exportGtmSummary ==
    \E containerId \in {getGtmContainerId_(config)} :
    \E tags \in SheetDataOutcomes(tables["GTM_Tags"], loaded) :
    \E triggers \in SheetDataOutcomes(tables["GTM_Triggers"], loaded) :
    \E variables \in SheetDataOutcomes(tables["GTM_Variables"], loaded) :
    \E vendors \in SheetDataOutcomes(tables["GTM_Vendors"], loaded) :
        /\ IF ContainerIdMissing(containerId)
           THEN /\ alerts' = <<NoContainerData>>
                /\ aux' = aux
           ELSE IF tags.thrown
           THEN /\ alerts' = <<SummaryError(tags.value)>>
                /\ aux' = aux
           ELSE IF triggers.thrown
           THEN /\ alerts' = <<SummaryError(triggers.value)>>
                /\ aux' = aux
           ELSE IF variables.thrown
           THEN /\ alerts' = <<SummaryError(variables.value)>>
                /\ aux' = aux
           ELSE IF vendors.thrown
           THEN /\ alerts' = <<SummaryError(vendors.value)>>
                /\ aux' = aux
           ELSE IF Len(tags.value) = 0
           THEN /\ alerts' = <<NoDataFound>>
                /\ aux' = aux
           ELSE /\ alerts' = <<SummaryCreated>>
                /\ aux' = [aux EXCEPT !.summary =
                              buildGtmSummarySheet_(containerId, tags.value,
                                  triggers.value, variables.value, vendors.value)]
        /\ last' = [NoRun EXCEPT !.op = "summary"]
        /\ UNCHANGED <<config, tables, extractVars, decodeVars, locateVars,
                       scanVars, recordVars, evalVars, buildVars, crawlVars,
                       searchVars>>

\* a spreadsheet whose inspector sheets are set up and whose GTM_CONFIG holds
\* an identifier or none, in a project that runs with either definition of
\* getSheetDataAsObjects
SummaryInit ==
    /\ config \in {[exists |-> TRUE, a2 |-> id] : id \in {CID, <<>>}}
    /\ tables = [n \in OutputSheets |-> NoSheet]
    /\ aux = [readme |-> TRUE, debug |-> NoSheet, raw |-> NoSheet,
              summary |-> NoSheet]
    /\ alerts = <<>>
    /\ last = NoRun
    /\ ExtractOff
    /\ DecodeOff
    /\ LocateOff
    /\ ScanOff
    /\ RecordOff
    /\ EvalOff
    /\ loaded \in LoadOrders
    /\ CrawlOff
    /\ SearchOff

SummaryNext ==
    \/ inspectGtmContainer
    \/ clearGtmOutputSheets
    \/ exportGtmSummary

SpecSummary == SummaryInit /\ [][SummaryNext]_vars

\* ------------------------------------------------ exhaustive search machine
\* members without braces of their own, with their lengths in characters
MemberTagList == Member("tags", Arr(<<Num(1)>>), "json", 10, FALSE, <<>>)
MemberTagNumber == Member("tags", Num(1), "json", 8, FALSE, <<>>)
MemberMacroList == Member("macros", Arr(<<>>), "json", 11, FALSE, <<>>)

\* object literals of the search: a container just above the minimum size,
\* a larger container, a larger object whose tags field is no array, a
\* larger object JSON.parse rejects, a container of exactly the minimum
\* size, and a container left open
ObjTags == Braced(<<Pad(ObjectMinLength), MemberTagList>>)
ObjMacros == Braced(<<Pad(ObjectMinLength + 1000), MemberMacroList>>)
ObjNoList == Braced(<<Pad(ObjectMinLength + 2000), MemberTagNumber>>)
ObjScript == Braced(<<Pad(ObjectMinLength + 2000), MemberSingleQuoted>>)
ObjAtMinimum == Braced(<<Pad(ObjectMinLength - 12), MemberTagList>>)
ObjOpen == <<Chr("{"), Pad(ObjectMinLength), MemberTagList>>

SearchObjects == {ObjTags, ObjMacros, ObjNoList, ObjScript, ObjAtMinimum, ObjOpen}

\* n objects larger than any of the above that parse and are no container
ObjCrowd == Braced(<<Pad(ObjectMinLength + 3000), MemberOther>>)
Crowd(n) == [k \in 1..(4 * n) |-> ObjCrowd[((k - 1) % 4) + 1]]

\* n empty objects "{}"
Smalls(n) == [k \in 1..(2 * n) |-> IF k % 2 = 1 THEN Chr("{") ELSE Chr("}")]

\* the end of the text: nothing, or text without braces as long as the
\* tail the search does not look into
Tails == {<<>>, <<Text(TailSkip, <<>>)>>}

SearchInit ==
    /\ \/ \E n \in 0..MaxSegments : \E f \in [1..n -> SearchObjects] :
          \E k \in {0, CandidateCap - 1, CandidateCap} : \E t \in Tails :
              searchText = Crowd(k) \o Concat(f) \o t
       \/ \E n \in {ObjectStartCap - 1, ObjectStartCap} : \E t \in Tails :
              searchText = ObjTags \o Smalls(n) \o t
    /\ searchOut = NoCandidate("pending")
    /\ fpc = "ready"
    /\ ExtractOff
    /\ DecodeOff
    /\ LocateOff
    /\ RunOff
    /\ ScanOff
    /\ RecordOff
    /\ EvalOff
    /\ BuildOff
    /\ CrawlOff

\* findContainerDataObject_(rawJs)
SearchObject ==
    /\ fpc = "ready"
    /\ searchOut' = findContainerDataObject_(searchText)
    /\ fpc' = "done"
    /\ UNCHANGED <<searchText, extractVars, decodeVars, locateVars, runVars,
                   scanVars, recordVars, evalVars, buildVars, crawlVars>>

SearchNext == SearchObject

SpecSearch == SearchInit /\ [][SearchNext]_vars

\* ------------------------------------------------------------------ claims
\* C2 as stated: for any text holding a lexically well-formed JSON object at
\* startIdx (strings may hold braces and escaped quotes), the extractor
\* returns exactly the text from startIdx to the matching closing brace
\* inclusive.
C2_ExactSpanAnyLength ==
    (xpc = "done" /\ MatchingEnd(text, start) >= 0)
        => out = Extracted(Substring(text, start, MatchingEnd(text, start)))

\* the matching closing brace lies inside the scan window of the extractor
InWindow(str, startIdx) ==
    Pos(str, MatchingEnd(str, startIdx) - 1) < Pos(str, startIdx) + ScanCap

\* C2: for a text holding a lexically well-formed JSON object at startIdx
\* whose matching closing brace lies within 5,000,000 characters of
\* startIdx, the extractor returns exactly the text from startIdx to that
\* brace inclusive, whatever braces and escaped quotes its strings hold.
C2_ExactSpan ==
    (xpc = "done" /\ MatchingEnd(text, start) >= 0 /\ InWindow(text, start))
        => out = Extracted(Substring(text, start, MatchingEnd(text, start)))

\* witness of C2: an object whose string literal holds a closing brace
C2_Witness ==
    /\ xpc = "done"
    /\ MatchingEnd(text, start) = Len(text)
    /\ InWindow(text, start)
    /\ \E i \in 1..(Len(text) - 2) :
          /\ CharAt(text, i) = "}"
          /\ CharAt(text, i - 1) = Quote
          /\ CharAt(text, i + 1) = Quote
    /\ out = Extracted(Substring(text, start, Len(text)))

SourceArray(d, field) ==
    IF IsArray(Get(d, field)) THEN Get(d, field).v ELSE <<>>

\* C5: one malformed record does not abort the batch: decode returns one
\* record per entry of each source array.
C5_BatchSurvives ==
    dpc = "done" =>
        /\ ~decoded.thrown
        /\ Len(decoded.value.tags) = Len(SourceArray(doc, "tags"))
        /\ Len(decoded.value.triggers) = Len(SourceArray(doc, "rules"))
        /\ Len(decoded.value.variables) = Len(SourceArray(doc, "macros"))

\* the document is well formed but for the indices its rules refer to
RegularButForIndices(d) ==
    /\ \A i \in 1..Len(SourceArray(d, "tags")) :
          SourceArray(d, "tags")[i] \in GoodTags
    /\ \A i \in 1..Len(SourceArray(d, "macros")) :
          SourceArray(d, "macros")[i] \in GoodMacros
    /\ \A i \in 1..Len(SourceArray(d, "rules")) :
          SourceArray(d, "rules")[i] \in GoodRules

\* index k of a condition list has no predicate behind it
Unresolved(d, k) ==
    \/ k.v < 0
    \/ k.v >= Len(SourceArray(d, "predicates"))
    \/ IsNullish(SourceArray(d, "predicates")[k.v + 1])

AddList(rule) == IF IsArray(Get(rule, "add")) THEN Get(rule, "add").v ELSE <<>>

\* C10: a rule whose positive conditions refer to predicate indices outside
\* the predicates array does not make the decode throw; a trigger record is
\* produced for it, and its conditionsSummary is "All Pages" when none of
\* its indices resolves.
C10_OutOfRangeIndex ==
    (dpc = "done" /\ RegularButForIndices(doc)) =>
        /\ ~decoded.thrown
        /\ Len(decoded.value.triggers) = Len(SourceArray(doc, "rules"))
        /\ \A i \in 1..Len(SourceArray(doc, "rules")) :
              LET rule == SourceArray(doc, "rules")[i] IN
              (\A j \in 1..Len(AddList(rule)) : Unresolved(doc, AddList(rule)[j]))
                  => decoded.value.triggers[i].conditionsSummary = Str(AllPages)

\* witness of C10: a decoded rule with a non-empty positive list of which no
\* index resolves, in a document that has predicates
C10_Witness ==
    /\ dpc = "done"
    /\ RegularButForIndices(doc)
    /\ Len(SourceArray(doc, "predicates")) > 0
    /\ \E i \in 1..Len(SourceArray(doc, "rules")) :
          LET rule == SourceArray(doc, "rules")[i] IN
          /\ Len(AddList(rule)) > 0
          /\ \A j \in 1..Len(AddList(rule)) : Unresolved(doc, AddList(rule)[j])
          /\ \E j \in 1..Len(AddList(rule)) :
                AddList(rule)[j].v >= Len(SourceArray(doc, "predicates"))
          /\ ~decoded.thrown
          /\ decoded.value.triggers[i].conditionsSummary = Str(AllPages)


\* ---- locator
\* the strategies that get a candidate out of the text: the pattern matches,
\* the extraction and the evaluation succeed and the strategy's own test of
\* the decoded shape, where it has one, passes
Accepting(rawJs, containerId) ==
    {k \in Strategies : StrategyCandidate(k, rawJs, containerId).status = "accepted"}

\* the model decoded from the candidate of strategy k
DecodedBy(k, rawJs, containerId) ==
    parseContainerData_(StrategyCandidate(k, rawJs, containerId).data, containerId)

\* C6: the strategies are tried in one fixed order and the first that
\* succeeds wins: the model returned is the one decoded from the candidate
\* of the earliest strategy that gets a candidate.
C6_FirstSuccessWins ==
    (lpc = "done" /\ Accepting(src, CID) # {}) =>
        /\ ~DecodedBy(Min(Accepting(src, CID)), src, CID).thrown
        /\ located = DecodedBy(Min(Accepting(src, CID)), src, CID).value

\* C7: a source that matches the pattern of strategy 3 (the indexed
\* assignment) and of none of strategies 0 to 2, with a candidate that
\* extracts and parses, is decoded through strategy 3.
C7_FallThroughToIndexed ==
    (/\ lpc = "done"
     /\ \A k \in 0..2 : StrategyCandidate(k, src, CID).status = "nomatch"
     /\ StrategyCandidate(3, src, CID).status = "accepted") =>
        /\ ~DecodedBy(3, src, CID).thrown
        /\ located = DecodedBy(3, src, CID).value


\* ---- run
\* the last handler was an inspection run and its fetch returned the text
FetchSucceeded == last.op = "inspect" /\ "fetch" \in last.steps

\* the last handler was an inspection run and its fetch failed: a response
\* that is not 2xx, or no response
FetchFailed ==
    /\ last.op = "inspect"
    /\ "request" \in last.steps
    /\ \/ last.resp.kind = "exception"
       \/ last.resp.kind = "response" /\ ~(last.resp.code \in 200..299)

\* the model and the vendor hits of the last run, from the text it fetched
RunModel == extractContainerModelFromRawJs_(last.resp.text, last.containerId)
RunVendors == analyzeVendorsFromRawJs_(last.resp.text, last.containerId, RunModel.tags)

\* every locator strategy fails on the text: none gets a candidate
NoStructure(rawJs, containerId) == Accepting(rawJs, containerId) = {}

\* C1: when every locator strategy fails on the fetched text, the locator
\* returns the empty model and the run still proceeds to its end: no error
\* dialog, the Tags, Triggers and Variables tables written with the header
\* row only, and the completion dialog reporting the zero counts.
C1_EmptyModelRunCompletes ==
    (FetchSucceeded /\ NoStructure(last.resp.text, last.containerId)) =>
        /\ RunModel = EmptyModel
        /\ \A i \in 1..Len(alerts) : alerts[i].title # "GTM Inspector Error"
        /\ tables["GTM_Tags"] = Sheet(RowsOf(TagHeaders, <<>>))
        /\ tables["GTM_Triggers"] = Sheet(RowsOf(TriggerHeaders, <<>>))
        /\ tables["GTM_Variables"] = Sheet(RowsOf(VariableHeaders, <<>>))
        /\ alerts # <<>>
        /\ alerts[Len(alerts)] =
              InspectionComplete(last.containerId, EmptyModel, RunVendors)

\* C4: in a run whose text holds vendor identifiers and matches no locator
\* strategy, the hits of the vendor scan are written to the Vendors table.
C4_VendorsWithoutStructure ==
    (/\ FetchSucceeded
     /\ NoStructure(last.resp.text, last.containerId)
     /\ RunVendors # <<>>) =>
        tables["GTM_Vendors"] = Sheet(RowsOf(VendorHeaders, RunVendors))

\* C8: a run whose fetch fails shows an error that carries the status code
\* or the text of the transport error, does no decode and no vendor scan,
\* and leaves the four output tables as they were.
C8_TransportFailureTerminal ==
    [][FetchFailed' =>
          /\ alerts'[Len(alerts')].title = "GTM Inspector Error"
          /\ Includes(alerts'[Len(alerts')].message,
                      IF last'.resp.kind = "exception" THEN last'.resp.message
                      ELSE NumStr(last'.resp.code))
          /\ last'.steps \cap {"fetch", "locate", "scan", "preview", "write"} = {}
          /\ tables' = tables]_vars

\* a failed fetch over tables that hold the rows of an earlier run
C8_Witness ==
    /\ FetchFailed
    /\ last.resp.kind = "response" /\ last.resp.code = 404
    /\ tables["GTM_Tags"].exists
    /\ Len(tables["GTM_Tags"].rows) > 1
    /\ tables["GTM_Vendors"].exists
    /\ Len(tables["GTM_Vendors"].rows) > 1

\* C9: every run whose fetch succeeded leaves each of the four output tables
\* holding the header row and one row per record of that run, and nothing
\* of an earlier run.
C9_WholeTableReplace ==
    FetchSucceeded =>
        /\ tables["GTM_Tags"] = Sheet(RowsOf(TagHeaders, RunModel.tags))
        /\ tables["GTM_Triggers"] = Sheet(RowsOf(TriggerHeaders, RunModel.triggers))
        /\ tables["GTM_Variables"] = Sheet(RowsOf(VariableHeaders, RunModel.variables))
        /\ tables["GTM_Vendors"] = Sheet(RowsOf(VendorHeaders, RunVendors))

\* ---- vendor scan
\* every identifier literal of the scanned text, over all its tokens
RECURSIVE AllOccurrences(_)
AllOccurrences(rawJs) ==
    IF rawJs = <<>> THEN <<>>
    ELSE IdsOf(Head(rawJs)) \o AllOccurrences(Tail(rawJs))

PatternOf(pat) ==
    CHOOSE k \in 1..Len(VendorPatterns) : VendorPatterns[k].pat = pat

\* hit h reports the identifier literal m
Reports(h, m) ==
    /\ h.vendor = Str(VendorPatterns[PatternOf(m.pat)].vendor)
    /\ h.type = Str(VendorPatterns[PatternOf(m.pat)].type)
    /\ h.id = Str(Lit(m.id, m.len))

\* C11: within one vendor scan no two hits share the same (vendor, idType,
\* idValue) triple, however many times the literal occurs in the text; every
\* distinct matched identifier yields exactly one hit, and every hit reports
\* an identifier of the text.
C11_OneHitPerIdentifier ==
    spc = "done" =>
        /\ \A i, j \in 1..Len(scanHits) :
              (/\ scanHits[i].vendor = scanHits[j].vendor
               /\ scanHits[i].type = scanHits[j].type
               /\ scanHits[i].id = scanHits[j].id) => i = j
        /\ \A k \in 1..Len(AllOccurrences(scanText)) :
              Cardinality({i \in 1..Len(scanHits) :
                  Reports(scanHits[i], AllOccurrences(scanText)[k])}) = 1
        /\ \A i \in 1..Len(scanHits) :
              \E k \in 1..Len(AllOccurrences(scanText)) :
                  Reports(scanHits[i], AllOccurrences(scanText)[k])

\* a scan of a text where one GA4 measurement id occurs twice next to a
\* Meta pixel id and ended with two hits
C11_Witness ==
    /\ spc = "done"
    /\ \E i, j \in 1..Len(AllOccurrences(scanText)) :
          /\ i < j
          /\ AllOccurrences(scanText)[i] = MeasureId
          /\ AllOccurrences(scanText)[j] = MeasureId
    /\ \E k \in 1..Len(AllOccurrences(scanText)) :
          AllOccurrences(scanText)[k] = PixelId
    /\ Len(scanHits) = 2

TagDone == ipc = "done" /\ rawItem.kind = "tag"
MacroDone == ipc = "done" /\ rawItem.kind = "macro"
RuleDone == ipc = "done" /\ rawItem.kind = "rule"

\* the consent field of the raw tag is the tagged list ["list", t1, ..., tn]
ConsentList(tag) ==
    /\ "consent" \in DOMAIN tag.v
    /\ tag.v.consent.t = "arr"
    /\ Len(tag.v.consent.v) >= 1
    /\ tag.v.consent.v[1] = Str(S_list)

\* the string tokens among t1 .. tn, in order
ConsentStrings(tag) ==
    LET tokens == Tail(tag.v.consent.v)
        strings == SelectSeq(tokens, LAMBDA x : x.t = "str")
    IN [i \in 1..Len(strings) |-> strings[i].v]

\* C13: a raw tag whose consent field is the tagged list ["list", t1, ..., tn]
\* decodes to a consent value of exactly the string tokens among t1 .. tn,
\* in order and joined by ", " ("None" stands for an empty set of tokens); a
\* raw tag with no consent field, or with one of any other shape, decodes to
\* "None".  The consent of the decoded record is this value.
C13_ConsentExact ==
    TagDone =>
        /\ parseConsentSettings_(rawItem.value) =
              IF ConsentList(rawItem.value)
                  /\ ConsentStrings(rawItem.value) # <<>>
              THEN Join(ConsentStrings(rawItem.value), Lit(", ", 2))
              ELSE Lit("None", 4)
        /\ ~decodedItem.thrown =>
              decodedItem.value.consent =
                  Str(parseConsentSettings_(rawItem.value))

\* a tag with consent ["list", "ad_storage", "analytics_storage"] decoded to
\* a record of consent "ad_storage, analytics_storage"
C13_Witness ==
    /\ TagDone
    /\ ~decodedItem.thrown
    /\ ConsentList(rawItem.value)
    /\ ConsentStrings(rawItem.value) = <<S_adStorage, S_analyticsStorage>>
    /\ decodedItem.value.consent =
          Str(S_adStorage \o Lit(", ", 2) \o S_analyticsStorage)

\* the flag of the raw tag is the boolean true
FlagSet(tag, flag) == flag \in DOMAIN tag.v /\ tag.v[flag] = Bool(TRUE)

\* C14: firingOption follows the two flags with precedence once-per-event >
\* once-per-page > Unlimited: "Once per event" when once_per_event is true
\* (also when once_per_load is true too), "Once per page" when only
\* once_per_load is true, "Unlimited" otherwise.  The firingOption of the
\* decoded record is this value.
C14_FiringPrecedence ==
    TagDone =>
        /\ parseTagFiringOption_(rawItem.value) =
              IF FlagSet(rawItem.value, "once_per_event")
              THEN Lit("Once per event", 14)
              ELSE IF FlagSet(rawItem.value, "once_per_load")
              THEN Lit("Once per page", 13)
              ELSE Lit("Unlimited", 9)
        /\ ~decodedItem.thrown =>
              decodedItem.value.firingOption =
                  Str(parseTagFiringOption_(rawItem.value))

\* a tag with both flags true decoded to a record of "Once per event"
C14_Witness ==
    /\ TagDone
    /\ ~decodedItem.thrown
    /\ FlagSet(rawItem.value, "once_per_event")
    /\ FlagSet(rawItem.value, "once_per_load")
    /\ decodedItem.value.firingOption = Str(Lit("Once per event", 14))

\* the property of a raw record, undefined when it carries none
Field(x, name) == IF name \in DOMAIN x.v THEN x.v[name] ELSE Undefined

\* the raw record carries a non-empty string under the name
NonEmpty(x, name) == Field(x, name).t = "str" /\ Field(x, name).v # <<>>

RecognizedMacroFunctions ==
    {Str(S__v), Str(S__u), Str(S__k), Str(S__jsm), Str(S__r), Str(S__e),
     Str(S__c), Str(S__j), Str(S__smm)}

\* a macro with a function string that identifyVariableType_ has no label
\* for decodes to a type equal to that string
UnrecognizedKeepsFunction ==
    (/\ NonEmpty(rawItem.value, "function")
     /\ Field(rawItem.value, "function") \notin RecognizedMacroFunctions)
        => decodedItem.value.type = Field(rawItem.value, "function")

\* C15 as stated: dataLayerPath is non-empty only for macros whose function
\* is "__v", where it equals the macro's vtp_name; every macro with any other
\* function, whatever other parameters it carries, decodes to an empty
\* dataLayerPath; a macro with an unrecognized function decodes to a type
\* equal to its raw function string.
C15_PathOnlyForDataLayer ==
    (MacroDone /\ ~decodedItem.thrown) =>
        /\ decodedItem.value.dataLayerPath # Str(<<>>) =>
              /\ Field(rawItem.value, "function") = Str(S__v)
              /\ decodedItem.value.dataLayerPath = Field(rawItem.value, "vtp_name")
        /\ Field(rawItem.value, "function") # Str(S__v) =>
              decodedItem.value.dataLayerPath = Str(<<>>)
        /\ UnrecognizedKeepsFunction

\* C15, amended: dataLayerPath is the vtp_name of a "__v" macro that carries
\* a non-empty one; failing that it is the macro's vtp_dataLayerVariable
\* when it carries a non-empty one, whatever its function; otherwise it is
\* empty (non-empty: truthy, as the code tests it).  A macro with an unrecognized function decodes to a type equal to
\* its raw function string.
C15_PathSources ==
    (MacroDone /\ ~decodedItem.thrown) =>
        /\ decodedItem.value.dataLayerPath =
              IF /\ Field(rawItem.value, "function") = Str(S__v)
                 /\ Truthy(Field(rawItem.value, "vtp_name"))
              THEN Field(rawItem.value, "vtp_name")
              ELSE IF Truthy(Field(rawItem.value, "vtp_dataLayerVariable"))
              THEN Field(rawItem.value, "vtp_dataLayerVariable")
              ELSE Str(<<>>)
        /\ UnrecognizedKeepsFunction

\* a constant macro ("__k") that carries a vtp_dataLayerVariable decoded to
\* a record with that path
C15_Witness ==
    /\ MacroDone
    /\ ~decodedItem.thrown
    /\ Field(rawItem.value, "function") = Str(S__k)
    /\ NonEmpty(rawItem.value, "vtp_dataLayerVariable")
    /\ decodedItem.value.dataLayerPath =
          Field(rawItem.value, "vtp_dataLayerVariable")

\* the setup_tags field of the raw tag is a list tagged "list"
SetupList(tag) ==
    /\ Field(tag, "setup_tags").t = "arr"
    /\ Len(Field(tag, "setup_tags").v) >= 1
    /\ Field(tag, "setup_tags").v[1] = Str(S_list)

\* entry is a well-formed ["tag", <numeric id>, ...]
SetupEntryOk(entry) ==
    /\ entry.t = "arr"
    /\ Len(entry.v) >= 2
    /\ entry.v[1] = Str(S_tag)
    /\ entry.v[2].t = "num"

\* the ids of the well-formed entries after the head of the list, in order
SetupListIds(tag) ==
    LET entries == SelectSeq(Tail(Field(tag, "setup_tags").v), SetupEntryOk)
    IN [i \in 1..Len(entries) |-> entries[i].v[2]]

\* C16: setupTagIds come only from a setup_tags field shaped as the tagged
\* list ["list", ["tag", <id>, ...], ...]: each well-formed entry contributes
\* its id in order, malformed entries are ignored without failing the
\* record, and a setup_tags value that is not a "list"-tagged structure
\* yields no setup tag ids.
C16_SetupTagsFromTaggedList ==
    TagDone =>
        /\ extractSetupTags_(rawItem.value) =
              IF SetupList(rawItem.value) THEN SetupListIds(rawItem.value)
              ELSE <<>>
        /\ ~decodedItem.thrown =>
              decodedItem.value.setupTags =
                  Str(JoinValues(
                      IF SetupList(rawItem.value)
                      THEN SetupListIds(rawItem.value) ELSE <<>>,
                      Lit(", ", 2)))

\* the positive conditions of the raw rule, as predicates; a reference that
\* resolves to no predicate stands as undefined
PositiveConditions(rule) ==
    IF Field(rule, "add").t # "arr" THEN <<>>
    ELSE [i \in 1..Len(Field(rule, "add").v) |->
             LET id == Field(rule, "add").v[i] IN
             IF id.t = "num" /\ id.v >= 0 /\ id.v < Len(RulePredicates.v)
             THEN RulePredicates.v[id.v + 1] ELSE Undefined]

\* an equality or contains test of the event variable ["macro", 0] against a
\* non-empty string under the length cap that is not URL-shaped
EventTest(predicate) ==
    /\ predicate.t = "arr"
    /\ Len(predicate.v) >= 3
    /\ predicate.v[1] \in {Str(S_equals), Str(S_cn)}
    /\ predicate.v[2].t = "arr"
    /\ Len(predicate.v[2].v) >= 2
    /\ predicate.v[2].v[1] = Str(S_macro)
    /\ predicate.v[2].v[2] = Num(0)
    /\ predicate.v[3].t = "str"
    /\ StrLength(predicate.v[3].v) > 0
    /\ StrLength(predicate.v[3].v) < EventNameCap
    /\ ~StartsWith(predicate.v[3].v, S_http)
    /\ ~StartsWith(predicate.v[3].v, Chars(<<"/">>))

\* the positions of the positive conditions that are event tests
EventTests(rule) ==
    {i \in 1..Len(PositiveConditions(rule)) :
        EventTest(PositiveConditions(rule)[i])}

FirstOf(S) == CHOOSE i \in S : \A j \in S : i <= j

\* C17: eventName is the literal operand of the first positive condition of
\* the rule that is an equality or contains test against ["macro", 0] with
\* an operand that is a non-empty string under the length cap and not
\* URL-shaped (not starting with "http" or "/"); when no positive condition
\* is such a test, eventName is empty.
C17_EventNameFromFirstTest ==
    (RuleDone /\ ~decodedItem.thrown) =>
        decodedItem.value.eventName =
            IF EventTests(rawItem.value) = {} THEN Str(<<>>)
            ELSE PositiveConditions(rawItem.value)[
                     FirstOf(EventTests(rawItem.value))].v[3]

\* a rule whose first positive condition tests the event variable against a
\* URL and whose second is an event test decoded to the second operand
C17_Witness ==
    /\ RuleDone
    /\ ~decodedItem.thrown
    /\ EventTests(rawItem.value) = {2}
    /\ PositiveConditions(rawItem.value)[1].t = "arr"
    /\ StartsWith(PositiveConditions(rawItem.value)[1].v[3].v, S_http)
    /\ decodedItem.value.eventName = PositiveConditions(rawItem.value)[2].v[3]
    /\ decodedItem.value.eventName # Str(<<>>)

\* the ordered table of the tag types: the label of the first rule that the
\* function identifier matches, the identifier itself when none does, and
\* "Unknown" when the tag carries no identifier
TypeTable ==
    <<[has |-> {S_gaawe, S_gaawc}, is |-> {}, label |-> Lit("GA4 Event", 9)],
      [has |-> {}, is |-> {S__googtag}, label |-> Lit("GA4 Config", 10)],
      [has |-> {}, is |-> {S__ua}, label |-> Lit("Universal Analytics", 19)],
      [has |-> {}, is |-> {S__gclidw},
       label |-> Lit("Google Ads Conversion Linker", 28)],
      [has |-> {S_awct}, is |-> {},
       label |-> Lit("Google Ads Conversion Tracking", 30)],
      [has |-> {S_sp}, is |-> {}, label |-> Lit("Google Ads Remarketing", 22)],
      [has |-> {S_flc, S_fls}, is |-> {},
       label |-> Lit("Floodlight Counter/Sales", 24)],
      [has |-> {}, is |-> {S__html}, label |-> Lit("Custom HTML", 11)],
      [has |-> {}, is |-> {S__img}, label |-> Lit("Custom Image", 12)]>>

RuleMatches(r, func) ==
    \/ \E part \in r.has : Includes(func, part)
    \/ \E whole \in r.is : SameString(func, whole)

TableLabel(func) ==
    LET matching == {k \in 1..Len(TypeTable) : RuleMatches(TypeTable[k], func)}
    IN IF matching # {} THEN TypeTable[FirstOf(matching)].label
       ELSE IF func # <<>> THEN func
       ELSE Lit("Unknown", 7)

FunctionOf(tag) ==
    IF Field(tag, "function").t = "str" THEN Field(tag, "function").v ELSE <<>>

\* C18: every raw tag whose function identifier is "__html" decodes to type
\* "Custom HTML", whatever its other parameters are, and to vendor
\* "Meta (Facebook)" when its HTML payload contains "fbq("; the type of any
\* tag is the label of the first matching rule of the ordered table, the
\* raw identifier when no rule matches, "Unknown" when there is none.
C18_TypeFromFunctionTable ==
    (TagDone /\ ~decodedItem.thrown) =>
        /\ decodedItem.value.type = Str(TableLabel(FunctionOf(rawItem.value)))
        /\ FunctionOf(rawItem.value) = S__html =>
              /\ decodedItem.value.type = Str(Lit("Custom HTML", 11))
              /\ (/\ Field(rawItem.value, "vtp_html").t = "str"
                  /\ Includes(Field(rawItem.value, "vtp_html").v, S_fbq))
                    => decodedItem.value.vendor = Str(Lit("Meta (Facebook)", 15))

\* ---- the object literal parser
\* the three tiers on the text handed to the parser: (a) strict JSON parse,
\* (b) JSON parse of the cleaned text, (c) evaluation as an expression
TierStrict == JsonParse(objText)
TierCleaned == JsonParse(CleanedText(objText))
TierEval == EvalLiteral(objText)

\* C19: parseJavaScriptObject tries (a) the strict JSON parse, (b) the JSON
\* parse after normalization, (c) expression evaluation, in this order; it
\* returns the value of the first tier that succeeds without running a later
\* tier, and fails with an error only when all three tiers have failed.
C19_FirstTierWins ==
    epc = "done" =>
        /\ ~TierStrict.thrown =>
              /\ ~parsedOut.thrown
              /\ parsedOut.value = TierStrict.value
              /\ parsedOut.tiers = <<"strict">>
        /\ (TierStrict.thrown /\ ~TierCleaned.thrown) =>
              /\ ~parsedOut.thrown
              /\ parsedOut.value = TierCleaned.value
              /\ parsedOut.tiers = <<"strict", "cleaned">>
        /\ (TierStrict.thrown /\ TierCleaned.thrown /\ ~TierEval.thrown) =>
              /\ ~parsedOut.thrown
              /\ parsedOut.value = TierEval.value
              /\ parsedOut.tiers = <<"strict", "cleaned", "eval">>
        /\ parsedOut.thrown <=>
              (TierStrict.thrown /\ TierCleaned.thrown /\ TierEval.thrown)
        /\ parsedOut.thrown =>
              parsedOut.tiers = <<"strict", "cleaned", "eval">>

\* a text the strict parse rejects and the cleaned parse takes, returned
\* with the value of the cleaned text, which is not the value evaluation
\* would have given, and without an evaluation
C19_Witness ==
    /\ epc = "done"
    /\ TierStrict.thrown
    /\ ~TierCleaned.thrown
    /\ ~TierEval.thrown
    /\ TierCleaned.value # TierEval.value
    /\ parsedOut.value = TierCleaned.value
    /\ parsedOut.tiers = <<"strict", "cleaned">>

\* ---- clearing the output sheets
\* C20: clearGtmOutputSheets clears the contents of GTM_Tags, GTM_Triggers,
\* GTM_Variables and GTM_Vendors, those that exist, and creates no sheet; it
\* leaves GTM_CONFIG, GTM_README and every other sheet as they were.
C20_ClearsOutputSheetsOnly ==
    [][clearGtmOutputSheets =>
          /\ \A n \in OutputSheets :
                /\ tables'[n].exists = tables[n].exists
                /\ tables'[n].rows = <<>>
          /\ config' = config
          /\ aux' = aux]_vars

\* after a clear: an output sheet that exists and is empty (it held at least
\* its header row before, every write puts one), next to a GTM_CONFIG and a
\* GTM_DEBUG sheet that still hold their contents
C20_Witness ==
    /\ last.op = "clear"
    /\ \E n \in OutputSheets : tables[n].exists /\ tables[n].rows = <<>>
    /\ config.exists
    /\ config.a2 # <<>>
    /\ aux.debug.exists
    /\ aux.debug.rows # <<>>

\* ---------------------------------------------------------------- C21
NoUrlTwice(inv) ==
    \A i, j \in 1..Len(inv) : inv[i].url = inv[j].url => i = j

\* C21: crawl resume does no duplicate work.  Over any sequence of runs, a
\* page is fetched only when its Crawl Status is Pending; a row whose status
\* is Fetched, Error or Skipped keeps that status for good, so it is never
\* Pending and never fetched again; rows stay where they are, and no URL
\* ever has two rows in PAGES_INVENTORY.
C21_ResumeNoDuplicateWork ==
    /\ [](NoUrlTwice(inventory))
    /\ [][/\ picked'.act = "fetch" =>
                 \E i \in 1..Len(inventory) :
                     /\ inventory[i].url = picked'.url
                     /\ inventory[i].status = "Pending"
          /\ \A i \in 1..Len(inventory) :
                 /\ i <= Len(inventory')
                 /\ inventory'[i].url = inventory[i].url
                 /\ inventory[i].status # "Pending" =>
                        inventory'[i].status = inventory[i].status]_vars

\* a resumed run: the loop of a run has just started over an inventory
\* that holds a fetched page and a pending one
C21_Witness ==
    /\ cpc = "loop"
    /\ crawlAlert = "Starting Crawl"
    /\ picked = NoPick
    /\ \E i, j \in 1..Len(inventory) :
           /\ inventory[i].status = "Fetched"
           /\ inventory[j].status = "Pending"

\* ---------------------------------------------------------------- C22
\* the Depth of the row of a URL, as a number; the blank Depth cell of the
\* start URL counts as 0
DepthOf(inv, url) == ToNumber(inv[RowIndex(inv, url)].depth)

\* C22: the crawl is breadth-first by recorded depth.  Whenever an iteration
\* of runCrawl picks a page (to fetch it, to skip it, or to stop on it at
\* the page limit), no row whose Crawl Status is Pending at that moment has
\* a Depth smaller than the Depth of the picked page.
C22_BreadthFirst ==
    [][picked'.act # "none" =>
          \A i \in 1..Len(inventory) :
              inventory[i].status = "Pending" =>
                  ToNumber(inventory[i].depth) >= DepthOf(inventory, picked'.url)]_vars

\* a page of depth 1 was picked while a page of depth 2 was pending beside
\* it: its fetch failed, so the step queued no row
C22_Witness ==
    /\ picked.act = "fetch"
    /\ DepthOf(inventory, picked.url) = 1
    /\ inventory[RowIndex(inventory, picked.url)].status = "Error"
    /\ \E i \in 1..Len(inventory) :
           /\ inventory[i].status = "Pending"
           /\ inventory[i].depth = Num(2)

\* ---------------------------------------------------------------- C23
\* C23: the crawler respects Max Pages and Max Depth.  Starting from an
\* empty inventory, over any sequence of runs under one configuration: the
\* number of rows with status Fetched never exceeds config.maxPages; no
\* fetched row has a Depth above config.maxDepth; and a step of the loop
\* adds rows to the inventory only when it fetched a page whose Depth is
\* below config.maxDepth.
C23_RespectsLimits ==
    /\ [](/\ FetchedCount(inventory) <= crawlConfig.maxPages
          /\ \A i \in 1..Len(inventory) :
                 inventory[i].status = "Fetched" =>
                     ToNumber(inventory[i].depth) <= crawlConfig.maxDepth)
    /\ [][(cpc = "loop" /\ Len(inventory') > Len(inventory)) =>
              /\ picked'.act = "fetch"
              /\ DepthOf(inventory, picked'.url) < crawlConfig.maxDepth]_vars

\* the page limit stopped a run: as many pages are fetched as Max Pages
\* allows, one of them at depth Max Depth, and a page is still pending
C23_Witness ==
    /\ picked.act = "stop"
    /\ crawlAlert = "Crawl Paused"
    /\ FetchedCount(inventory) = crawlConfig.maxPages
    /\ \E i, j \in 1..Len(inventory) :
           /\ inventory[i].status = "Fetched"
           /\ ToNumber(inventory[i].depth) = crawlConfig.maxDepth
           /\ inventory[j].status = "Pending"

\* ---------------------------------------------------------------- C29
\* the completed state: runCrawl is not running, the inventory has rows and
\* none of them is Pending, so that the next runCrawl reports "Crawl
\* Complete"
CrawlCompleted ==
    /\ cpc = "idle"
    /\ inventory # <<>>
    /\ PendingCount(inventory) = 0

\* C29: for a finite site and any configuration, re-running runCrawl again
\* and again eventually reaches the completed state.
C29_EventuallyComplete == <>CrawlCompleted

\* ---------------------------------------------------------------- C24
\* the ".push({" call sites of a text: the indices of their opening braces
PushSites(rawJs) == Sites(rawJs, "push", <<>>)

\* the object literal at a call site is balanced, parses as JSON, and the
\* decoded object has a tags, macros or resource value that counts as set
PushParses(rawJs, i) ==
    LET extracted == extractCompleteObject_(rawJs, i)
        data == JsonParse(extracted.text)
    IN /\ extracted.found
       /\ ~data.thrown
       /\ \E k \in {"tags", "macros", "resource"} : Truthy(Get(data.value, k))

\* the literal at a call site is longer than the minimum of the strategy
PushLarge(rawJs, i) ==
    StrLength(extractCompleteObject_(rawJs, i).text) > PushMinLength

\* what is returned for an accepted call site: the resource sub-object when
\* there is one, the decoded object otherwise
PushData(rawJs, i) ==
    LET data == JsonParse(extractCompleteObject_(rawJs, i).text).value IN
    IF Truthy(Get(data, "resource")) THEN Get(data, "resource") ELSE data

\* the strategy accepts exactly the first call site of the set, nothing
\* when the set is empty
PushAcceptsFirstOf(rawJs, good) ==
    IF good = {}
    THEN Strategy2(rawJs, CID).status # "accepted"
    ELSE Strategy2(rawJs, CID) = Candidate(PushData(rawJs, Min(good)))

\* C24 as stated: the array-append strategy scans all ".push({" call sites
\* in order of position and accepts the first whose balanced object literal
\* parses and exposes tags, macros or resource (the resource sub-object is
\* returned when present); other candidates are skipped.
C24_PushAcceptsFirstParsable ==
    lpc = "done" =>
        PushAcceptsFirstOf(src, {i \in PushSites(src) : PushParses(src, i)})

\* C24, amended: the strategy runs only when some ".push(" call of the text
\* has an argument that starts with "{" and ends with "})" with no ")" in
\* between; it then scans all ".push({" call sites in order of position and
\* accepts the first whose object literal is longer than 1000 characters,
\* parses as JSON and has a tags, macros or resource value that is set,
\* returning the resource sub-object when there is one; every other
\* candidate is skipped and the scan goes on to the next call site.
C24_PushAcceptsFirstLarge ==
    lpc = "done" =>
        PushAcceptsFirstOf(src,
            {i \in PushSites(src) :
                /\ PushPatternMatches(src)
                /\ PushLarge(src, i)
                /\ PushParses(src, i)})

\* the locator returned through the push strategy, whose first call site
\* was skipped and whose second was accepted
C24_Witness ==
    /\ lpc = "done"
    /\ ReturningStrategy(src, CID) = 2
    /\ Cardinality(PushSites(src)) = 2
    /\ ~PushParses(src, Min(PushSites(src)))
    /\ PushParses(src, Max(PushSites(src)))
    /\ located.tags # <<>>

\* ---------------------------------------------------------------- C25
\* the brace-opening positions of a text
BracePositions(t) == {i \in 0..(Len(t) - 1) : CharAt(t, i) = "{"}

\* those that lie more than the skipped tail before the end of the text
BracePositionsBeforeTail(t) ==
    LET length == StrLength(t) IN
    {i \in BracePositions(t) : Pos(t, i) < length - TailSkip}

\* the most recent n positions of a set
MostRecent(S, n) == {i \in S : Cardinality({j \in S : j > i}) < n}

\* the outcome the claim describes for a window of positions: the balanced
\* extractions above the minimum size, ordered by length descending (equal
\* lengths by position), the first CandidateCap of them parsed, the first
\* with an array-typed tags or macros field returned
SearchOutcome(t, window) ==
    LET objectText(i) == extractCompleteObject_(t, i).text
        kept == {i \in window :
                    /\ extractCompleteObject_(t, i).found
                    /\ StrLength(objectText(i)) > ObjectMinLength}
        before(i, j) ==
            \/ StrLength(objectText(i)) > StrLength(objectText(j))
            \/ StrLength(objectText(i)) = StrLength(objectText(j)) /\ i < j
        rank(i) == Cardinality({j \in kept : before(j, i)})
        qualifies(i) ==
            /\ ~JsonParse(objectText(i)).thrown
            /\ \E k \in {"tags", "macros"} :
                   Get(JsonParse(objectText(i)).value, k).t = "arr"
        hits == {i \in kept : rank(i) < CandidateCap /\ qualifies(i)}
    IN IF hits = {} THEN [accepted |-> FALSE, data |-> Undefined]
       ELSE [accepted |-> TRUE,
             data |-> JsonParse(objectText(CHOOSE i \in hits :
                                        \A j \in hits : rank(i) <= rank(j))).value]

SearchReturns(outcome) ==
    IF outcome.accepted THEN searchOut = Candidate(outcome.data)
    ELSE searchOut.status # "accepted"

\* C25 as stated: the exhaustive fallback considers the most recent 1000
\* brace-opening positions of the source, keeps the balanced extractions
\* above the minimum size, orders them by length descending, JSON-parses at
\* most the first 20 and returns the first that has an array-typed tags or
\* macros field, nothing when none of those 20 qualifies.
C25_SearchMostRecentStarts ==
    fpc = "done" =>
        SearchReturns(
            SearchOutcome(searchText,
                MostRecent(BracePositions(searchText), ObjectStartCap)))

\* C25, amended: the same, over the most recent 1000 of the brace-opening
\* positions that lie more than 100 characters before the end of the
\* source.
C25_SearchStartsBeforeTail ==
    fpc = "done" =>
        SearchReturns(
            SearchOutcome(searchText,
                MostRecent(BracePositionsBeforeTail(searchText), ObjectStartCap)))

\* the search returned the larger of two containers of the text
C25_Witness ==
    /\ fpc = "done"
    /\ searchText = ObjTags \o ObjMacros
    /\ searchOut = Candidate(JsonParse(ObjMacros).value)

\* ---------------------------------------------------------------- C26
\* the value that follows the first 'name' of a metadata array that has a
\* successor, undefined when there is none
MetadataSource(tag) ==
    LET metadata == Get(tag, "metadata")
        at == IF IsArray(metadata)
              THEN {i \in 1..(Len(metadata.v) - 1) : metadata.v[i] = Str(S_name)}
              ELSE {}
    IN IF at = {} THEN Undefined
       ELSE metadata.v[(CHOOSE i \in at : \A j \in at : i <= j) + 1]

\* the first element of the entry the entity table has at a position,
\* undefined when there is none
EntitySource(entities, idx) ==
    LET entry == IF entities.t = "obj" THEN Get(entities, DigitChars[idx + 1])
                 ELSE At(entities, idx)
    IN IF IsArray(entry) THEN At(entry, 0) ELSE Undefined

\* the sources of a tag name in the order of the cascade
NameSources(tag, idx, entities) ==
    <<Get(tag, "name"),
      MetadataSource(tag),
      EntitySource(entities, idx),
      Get(tag, "vtp_name"),
      Get(tag, "vtp_tagId"),
      IF Truthy(Get(tag, "vtp_activityTag")) /\ Truthy(Get(tag, "vtp_groupTag"))
      THEN Str(Get(tag, "vtp_groupTag").v \o Lit("/", 1)
                   \o Get(tag, "vtp_activityTag").v)
      ELSE Undefined,
      Get(tag, "vtp_trackingId"),
      Get(tag, "vtp_measurementId"),
      IF Truthy(Get(tag, "vtp_conversionId"))
      THEN Str(Lit("Conversion ", 11) \o Get(tag, "vtp_conversionId").v)
      ELSE Undefined,
      Get(tag, "vtp_conversionLabel")>>

\* the first source that yields a non-empty value wins; the name is empty
\* when all fail
CascadeHolds(sources, name) ==
    LET yields == {i \in 1..Len(sources) : Truthy(sources[i])} IN
    IF yields = {} THEN ~Truthy(name)
    ELSE name = sources[CHOOSE i \in yields : \A j \in yields : i <= j]

\* C26: a tag's name is resolved by a short-circuiting cascade: the name
\* field, then the value that follows "name" in the metadata array, then the
\* entity-table entry at the tag's position, then the vtp parameters in
\* their fixed order; the first source that yields a non-empty value wins,
\* and when all fail the name is empty and no exception is raised.
C26_NameCascade ==
    (ipc = "done" /\ rawItem.kind = "named") =>
        /\ ~decodedItem.thrown
        /\ CascadeHolds(NameSources(rawItem.value, rawItem.idx, rawItem.entities),
                        decodedItem.value.name)

\* the cascade on the tags whose decoding raises no exception
NameCascadeOfDecoded ==
    (ipc = "done" /\ rawItem.kind = "named" /\ ~decodedItem.thrown) =>
        CascadeHolds(NameSources(rawItem.value, rawItem.idx, rawItem.entities),
                     decodedItem.value.name)

\* ---------------------------------------------------------------- C27
\* one record per rule, in rule order, each with the id of its position
OnePerRule(rules, triggers) ==
    /\ Len(triggers) = Len(rules)
    /\ \A i \in 1..Len(rules) :
          /\ triggers[i].id = Str(Lit("trigger_", 8) \o NumStr(i - 1))
          /\ triggers[i].raw = Json(rules[i])

\* C27: triggers are synthesized one per rule: for every document that has
\* a rules array the decode yields exactly one TriggerRecord per rules
\* entry, in rule order, the record of the rule at position N with the id
\* trigger_N, whether or not the rule's predicate references resolve.
C27_OneTriggerPerRule ==
    (dpc = "done" /\ IsArray(Get(doc, "rules"))) =>
        /\ ~decoded.thrown
        /\ OnePerRule(Get(doc, "rules").v, decoded.value.triggers)

\* one record per rule in the documents whose decode raises no exception
OneTriggerPerRuleOfDecoded ==
    (dpc = "done" /\ IsArray(Get(doc, "rules")) /\ ~decoded.thrown) =>
        OnePerRule(Get(doc, "rules").v, decoded.value.triggers)

\* ---------------------------------------------------------------- C28
\* C28: an inspection run started with an empty container identifier in the
\* configuration performs no fetch, no decode and no scan and leaves the
\* Tags, Triggers, Variables and Vendors tables unchanged; it only asks the
\* user to configure the identifier.
C28_EmptyIdentifierNoWork ==
    [][(last'.op = "inspect" /\ (~config.exists \/ Trim(config.a2) = <<>>)) =>
          /\ tables' = tables
          /\ aux'.debug = aux.debug
          /\ aux'.raw = aux.raw
          /\ last'.steps = {"setup"}
          /\ last'.resp = NoResponse
          /\ alerts' = <<ConfigurationRequired>>]_vars

\* a run with an empty identifier in a spreadsheet whose tables an earlier
\* inspection has written
C28_Witness ==
    /\ last.op = "inspect"
    /\ last.containerId = <<>>
    /\ config.exists
    /\ alerts = <<ConfigurationRequired>>
    /\ \A n \in OutputSheets : tables[n].exists
    /\ Len(tables["GTM_Tags"].rows) > 1

\* ---------------------------------------------------------------- C30
\* the number of data rows of a table
DataRows(sheet) == IF sheet.exists /\ Len(sheet.rows) > 1 THEN Len(sheet.rows) - 1 ELSE 0

\* the summary holds the numbers of data rows of the four tables
SummaryCounts(summary, tbl) ==
    /\ summary.exists
    /\ Len(summary.rows) = 5
    /\ summary.rows[2] = NumStr(DataRows(tbl["GTM_Tags"]))
    /\ summary.rows[3] = NumStr(DataRows(tbl["GTM_Triggers"]))
    /\ summary.rows[4] = NumStr(DataRows(tbl["GTM_Variables"]))
    /\ summary.rows[5] = NumStr(DataRows(tbl["GTM_Vendors"]))

\* C30: exportGtmSummary, run after an inspection that wrote at least one
\* row to GTM_Tags (the identifier still in GTM_CONFIG), builds the
\* GTM_SUMMARY sheet whose Total Tags, Total Triggers, Total Variables and
\* Detected Vendors counts equal the numbers of data rows of the four
\* tables, and reports "No Data Found" only when GTM_Tags holds no data row;
\* with either global definition of getSheetDataAsObjects in force.
C30_SummaryCountsRows ==
    [][(/\ last'.op = "summary"
        /\ config.exists
        /\ Trim(config.a2) # <<>>
        /\ DataRows(tables["GTM_Tags"]) > 0) =>
          /\ alerts' = <<SummaryCreated>>
          /\ SummaryCounts(aux'.summary, tables)]_vars

\* the same, in a project in which the definition of GtmInspector.js is the
\* one in force
SummaryCountsRowsOfInspector ==
    [][(/\ last'.op = "summary"
        /\ loaded = "GtmInspector"
        /\ config.exists
        /\ Trim(config.a2) # <<>>) =>
          IF DataRows(tables["GTM_Tags"]) > 0
          THEN /\ alerts' = <<SummaryCreated>>
               /\ SummaryCounts(aux'.summary, tables)
          ELSE /\ alerts' = <<NoDataFound>>
               /\ aux' = aux]_vars

=============================================================================
